---------------------------- MODULE Spec2Model ----------------------------
(***************************************************************************)
(* cftcli: the stack poller and reporter of src/cftcli/deploy.py           *)
(* (get_stack_state, get_inprogress_resources, get_failed_resources,       *)
(* wait_for_stack) as it is driven by the deploy, destroy and attach       *)
(* commands.                                                               *)
(* Further specifications cover apply_config of cli.py, the parameters of   *)
(* deploy.py, list_pipelines.py, the cache and watch_build of codebuild.py, *)
(* detail.py and list.py.                                                   *)
(*                                                                         *)
(* Python strings are sequences of one-character strings, so that the      *)
(* substring tests ('IN_PROGRESS' in state), upper(), lower(), join() and  *)
(* sorted() of the source are computed character by character.             *)
(***************************************************************************)
EXTENDS Integers, Sequences, FiniteSets, TLC

\* --------------------------------------------------------------- bounds
\* Number of get_stack_state calls one run of wait_for_stack may make.
MaxFetch == 3

\* ------------------------------------------------------ program constants
TIME_DELAY == 3

\* ------------------------------------------------------------- strings
\* The characters the model's strings use, in code point order.
Chars ==
    <<" ","'",",","-","1","2",
      "A","B","C","D","E","F","G","H","I","J","K","L","M","N","O","P","Q",
      "R","S","T","U","V","W","X","Y","Z","_",
      "a","b","c","d","e","f","g","h","i","j","k","l","m","n","o","p","q",
      "r","s","t","u","v","w","x","y","z">>

UpperLetters ==
    <<"A","B","C","D","E","F","G","H","I","J","K","L","M","N","O","P","Q",
      "R","S","T","U","V","W","X","Y","Z">>

LowerLetters ==
    <<"a","b","c","d","e","f","g","h","i","j","k","l","m","n","o","p","q",
      "r","s","t","u","v","w","x","y","z">>

Ord(c) == CHOOSE i \in 1..Len(Chars) : Chars[i] = c

UpperChar(c) ==
    IF \E i \in 1..Len(LowerLetters) : LowerLetters[i] = c
    THEN UpperLetters[CHOOSE i \in 1..Len(LowerLetters) : LowerLetters[i] = c]
    ELSE c

LowerChar(c) ==
    IF \E i \in 1..Len(UpperLetters) : UpperLetters[i] = c
    THEN LowerLetters[CHOOSE i \in 1..Len(UpperLetters) : UpperLetters[i] = c]
    ELSE c

\* str.upper() and str.lower()
Upper(s) == [i \in 1..Len(s) |-> UpperChar(s[i])]
Lower(s) == [i \in 1..Len(s) |-> LowerChar(s[i])]

\* Python's `needle in hay` on strings
Contains(needle, hay) ==
    \E i \in 1..(Len(hay) - Len(needle) + 1) :
        SubSeq(hay, i, i + Len(needle) - 1) = needle

\* Python's a < b on strings: code points, a proper prefix is smaller
StrLess(a, b) ==
    LET n    == IF Len(a) < Len(b) THEN Len(a) ELSE Len(b)
        diff == {i \in 1..n : a[i] # b[i]}
    IN  IF diff = {}
        THEN Len(a) < Len(b)
        ELSE LET k == CHOOSE i \in diff : \A j \in diff : i <= j
             IN  Ord(a[k]) < Ord(b[k])

RECURSIVE InsertSorted(_, _)
InsertSorted(x, xs) ==
    IF xs = <<>> THEN <<x>>
    ELSE IF StrLess(x, Head(xs)) THEN <<x>> \o xs
    ELSE <<Head(xs)>> \o InsertSorted(x, Tail(xs))

\* sorted(list of strings)
RECURSIVE Sorted(_)
Sorted(xs) == IF xs = <<>> THEN <<>> ELSE InsertSorted(Head(xs), Sorted(Tail(xs)))

\* sep.join(list of strings)
RECURSIVE Join(_, _)
Join(sep, xs) ==
    IF xs = <<>> THEN <<>>
    ELSE IF Len(xs) = 1 THEN Head(xs)
    ELSE Head(xs) \o sep \o Join(sep, Tail(xs))

\* ------------------------------------------------------ string literals
IN_PROGRESS == <<"I","N","_","P","R","O","G","R","E","S","S">>
ROLLBACK    == <<"R","O","L","L","B","A","C","K">>
FAILED      == <<"F","A","I","L","E","D">>
CREATE      == <<"C","R","E","A","T","E">>
UPDATE      == <<"U","P","D","A","T","E">>
DELETE      == <<"D","E","L","E","T","E">>
COMPLETE    == <<"C","O","M","P","L","E","T","E">>
Us          == <<"_">>

CREATE_IN_PROGRESS          == CREATE \o Us \o IN_PROGRESS
CREATE_COMPLETE             == CREATE \o Us \o COMPLETE
CREATE_FAILED               == CREATE \o Us \o FAILED
UPDATE_IN_PROGRESS          == UPDATE \o Us \o IN_PROGRESS
UPDATE_ROLLBACK_IN_PROGRESS == UPDATE \o Us \o ROLLBACK \o Us \o IN_PROGRESS
UPDATE_ROLLBACK_COMPLETE    == UPDATE \o Us \o ROLLBACK \o Us \o COMPLETE
DELETE_COMPLETE             == DELETE \o Us \o COMPLETE
\* the same words in other letter cases
create_in_progress == Lower(CREATE_IN_PROGRESS)
Update_Failed      == <<"U","p","d","a","t","e","_","F","a","i","l","e","d">>

\* f'Stack with id {stackname} does not exist'
StackWithId  == <<"S","t","a","c","k"," ","w","i","t","h"," ","i","d"," ">>
DoesNotExist == <<" ","d","o","e","s"," ","n","o","t"," ","e","x","i","s","t">>
NotExistMessage(stackname) == StackWithId \o stackname \o DoesNotExist

\* messages of the other failures
RateExceeded   == <<"R","a","t","e"," ","e","x","c","e","e","d","e","d">>
KeyStackStatus == <<"'","S","t","a","c","k","S","t","a","t","u","s","'">>

demo == <<"d","e","m","o">>
None == <<>>


\* ------------------------------------------------- the remote's answers
\* A remote call answers with an error message (err # None) or a payload.
\* describe_stack_resources: StackResources, a list of resource records.
Res(name, status, reason) ==
    [LogicalResourceId |-> name, ResourceStatus |-> status,
     ResourceStatusReason |-> reason]

X       == <<"X">>
Y       == <<"Y">>
Bucket  == <<"B","u","c","k","e","t">>
FAILEDQ == <<"F","A","I","L","E","D","Q">>
r1      == <<"r","1">>
r2      == <<"r","2">>

ListingSpec  == <<Res(X, CREATE_FAILED, r1), Res(Y, CREATE_COMPLETE, <<>>)>>
ListingBusy  == <<Res(Y, CREATE_IN_PROGRESS, <<>>), Res(X, create_in_progress, <<>>)>>
ListingNamed == <<Res(FAILEDQ, UPDATE_IN_PROGRESS, <<>>)>>
ListingMixed == <<Res(Bucket, Update_Failed, r2), Res(Y, CREATE_COMPLETE, <<>>),
                  Res(X, CREATE_FAILED, r1)>>

Listings == {<<>>, ListingSpec, ListingBusy, ListingNamed, ListingMixed}

ErrorMessages(stackname) == {NotExistMessage(stackname), RateExceeded}

DescribeStackResourcesResponses(stackname) ==
    {[err |-> None, StackResources |-> l] : l \in Listings}
    \cup {[err |-> m, StackResources |-> <<>>] : m \in ErrorMessages(stackname)}

\* describe_stacks: Stacks, a list of stack records.
StackStatuses ==
    {CREATE_IN_PROGRESS, UPDATE_ROLLBACK_IN_PROGRESS, CREATE_COMPLETE,
     UPDATE_ROLLBACK_COMPLETE, CREATE_FAILED, create_in_progress, Update_Failed}

Stack(time, status) == [CreationTime |-> time, StackStatus |-> status]

StackLists ==
    {<<Stack(1, s)>> : s \in StackStatuses}
    \cup {<<>>,
          <<Stack(1, DELETE_COMPLETE), Stack(2, CREATE_IN_PROGRESS)>>,
          <<Stack(2, UPDATE_ROLLBACK_COMPLETE), Stack(1, CREATE_COMPLETE)>>,
          <<Stack(1, CREATE_FAILED), Stack(1, CREATE_COMPLETE)>>}

DescribeStacksResponses(stackname) ==
    {[err |-> None, Stacks |-> l] : l \in StackLists}
    \cup {[err |-> m, Stacks |-> <<>>] : m \in ErrorMessages(stackname)}

\* --------------------------------------------- deploy.py: pure functions
\* The result of a call that may raise: err is the exception's message
\* (None when the call returned), value what it returned, calls the remote
\* operations it issued, in order, caught the message of the exception an
\* except clause of the call handled (None when it handled none).
Result(e, v, c, x) == [err |-> e, value |-> v, calls |-> c, caught |-> x]
Returned(v, c) == Result(None, v, c, None)
Raised(m, c)   == Result(m, None, c, None)

\* find_current_stack: the newest stack of the list, <<>> for the empty dict
RECURSIVE FindCurrentFrom(_, _)
FindCurrentFrom(current, stacks) ==
    IF stacks = <<>> THEN current
    ELSE LET stack == Head(stacks)
         IN  IF current = <<>>
             THEN FindCurrentFrom(<<stack>>, Tail(stacks))
             ELSE IF stack.CreationTime > current[1].CreationTime
             THEN FindCurrentFrom(<<stack>>, Tail(stacks))
             ELSE FindCurrentFrom(current, Tail(stacks))

find_current_stack(stacks) == FindCurrentFrom(<<>>, stacks)

\* stack['StackStatus'] of the current stack of a describe_stacks answer;
\* None when the call failed or the answer holds no stack
StackStatusOf(ds) ==
    IF ds.err # None \/ find_current_stack(ds.Stacks) = <<>>
    THEN None
    ELSE find_current_stack(ds.Stacks)[1].StackStatus

\* InProgressRecord without the lower()
InProgressRecordExact(record) == Contains(IN_PROGRESS, record.ResourceStatus)

\* the test of get_inprogress_resources on one record
InProgressRecord(record) == Contains(Lower(IN_PROGRESS), Lower(record.ResourceStatus))

RECURSIVE InProgressIds(_)
InProgressIds(records) ==
    IF records = <<>> THEN <<>>
    ELSE (IF InProgressRecord(Head(records))
          THEN <<Head(records).LogicalResourceId>> ELSE <<>>)
         \o InProgressIds(Tail(records))

\* get_inprogress_resources, given the answer of describe_stack_resources
get_inprogress_resources(dsr) ==
    IF dsr.err # None
    THEN Raised(dsr.err, <<"describe_stack_resources">>)
    ELSE Returned(Sorted(InProgressIds(dsr.StackResources)),
                  <<"describe_stack_resources">>)

\* StackStateExcept with the not-found translation left out
StackStateExceptReraise(stackname, err_msg, calls) ==
    Result(err_msg, None, calls, err_msg)

\* StackStateExcept treating every failure as a removed stack
StackStateExceptSwallow(stackname, err_msg, calls) ==
    Result(None, DELETE_COMPLETE, calls, err_msg)

\* the except clause of get_stack_state
StackStateExcept(stackname, err_msg, calls) ==
    IF Contains(NotExistMessage(stackname), err_msg)
    THEN Result(None, DELETE_COMPLETE, calls, err_msg)
    ELSE Result(err_msg, None, calls, err_msg)

\* f"{state} - {', '.join(resources)}"
StateWithResources(state, resources) ==
    state \o <<" ","-"," ">> \o Join(<<","," ">>, resources)

\* get_stack_state, given the answers of describe_stacks (ds) and of
\* describe_stack_resources (dsr)
get_stack_state(stackname, ds, dsr) ==
    IF ds.err # None
    THEN StackStateExcept(stackname, ds.err, <<"describe_stacks">>)
    ELSE LET stack == find_current_stack(ds.Stacks)
         IN  IF stack = <<>>
             THEN StackStateExcept(stackname, KeyStackStatus, <<"describe_stacks">>)
             ELSE LET state     == StackStatusOf(ds)
                      resources == get_inprogress_resources(dsr)
                      calls     == <<"describe_stacks">> \o resources.calls
                  IN  IF resources.err # None
                      THEN StackStateExcept(stackname, resources.err, calls)
                      ELSE IF resources.value # <<>>
                      THEN Returned(StateWithResources(state, resources.value), calls)
                      ELSE Returned(state, calls)

\* FailedRecord without the upper()
FailedRecordExact(record) == Contains(FAILED, record.ResourceStatus)

\* the test of get_failed_resources on one record
FailedRecord(record) == Contains(FAILED, Upper(record.ResourceStatus))

FailedEntry(record) ==
    [name |-> record.LogicalResourceId, status |-> record.ResourceStatus,
     reason |-> record.ResourceStatusReason]

RECURSIVE FailedEntries(_)
FailedEntries(records) ==
    IF records = <<>> THEN <<>>
    ELSE (IF FailedRecord(Head(records)) THEN <<FailedEntry(Head(records))>> ELSE <<>>)
         \o FailedEntries(Tail(records))

\* get_failed_resources asking for the listing a second time
GetFailedResourcesTwice(dsr) ==
    IF dsr.err # None
    THEN Raised(dsr.err, <<"describe_stack_resources", "describe_stack_resources">>)
    ELSE Returned(FailedEntries(dsr.StackResources),
                  <<"describe_stack_resources", "describe_stack_resources">>)

\* get_failed_resources, given the answer of describe_stack_resources
get_failed_resources(dsr) ==
    IF dsr.err # None
    THEN Raised(dsr.err, <<"describe_stack_resources">>)
    ELSE Returned(FailedEntries(dsr.StackResources), <<"describe_stack_resources">>)

\* any(x in state for x in bad_states)
bad_states == <<ROLLBACK, FAILED>>

\* IsBadState comparing in upper case
IsBadStateAnyCase(state) ==
    \E i \in 1..Len(bad_states) : Contains(bad_states[i], Upper(state))

IsBadState(state) == \E i \in 1..Len(bad_states) : Contains(bad_states[i], state)

\* Transitional comparing in lower case, as get_inprogress_resources does
TransitionalAnyCase(state) == Contains(Lower(IN_PROGRESS), Lower(state))

\* Transitional giving way to the failure markers
TransitionalUnlessBad(state) == Contains(IN_PROGRESS, state) /\ ~IsBadState(state)

\* the loop test of wait_for_stack: 'IN_PROGRESS' not in state leaves the loop
Transitional(state) == Contains(IN_PROGRESS, state)

\* common.display_table: the title and the rows of the grid; a cell whose
\* text is 'CREATE_FAILED' is coloured red. (No value of the model is longer
\* than the 50 characters at which the source wraps it.)
Cell(value) ==
    [text |-> value, color |-> IF value = CREATE_FAILED THEN "red" ELSE "plain"]

TableRow(record) == <<Cell(record.name), Cell(record.status), Cell(record.reason)>>

display_table(records) ==
    [kind |-> "table", title |-> "Resources",
     headers |-> IF records = <<>> THEN <<>> ELSE <<"name", "status", "reason">>,
     rows |-> [i \in 1..Len(records) |-> TableRow(records[i])]]

\* print(f'{stackname} is {state}') with state = colored(state, color)
StatusLine(stackname, state, color) ==
    [kind |-> "line", stackname |-> stackname, state |-> state, color |-> color]


\* ------------------------------------------------------------ the state
VARIABLES
    cmd,             \* the command run: "deploy", "destroy", "attach", "assume_role"
    profile,         \* args.profile ("" when none is requested)
    CLOUDFORMATION,  \* each module's global client handle
    pc,              \* where the command is
    stack_status,    \* the StackStatus the last get_stack_state call read
    state,           \* wait_for_stack's state
    prev_state,      \* wait_for_stack's prev_state
    spinner,         \* whether the Halo spinner is started
    fetched,         \* the results of the get_stack_state calls, in order
    delays,          \* the arguments of the time.sleep calls, in order
    events,          \* what wait_for_stack did, in order
    calls,           \* the remote operations issued, in order
    listing,         \* the StackResources answered to get_failed_resources
    failed_resources,\* wait_for_stack's failed_resources
    console,         \* what was printed, in order
    error,           \* the message of the exception that propagates
    exit_code,       \* the exit status of the process, -1 while it runs
    existed,         \* what stack_exist was answered and what it returned
    home,            \* ~/.aws: whether it exists, and its two files
    applied,         \* the apply_config calls made, in order
    stack_kwargs     \* the keyword arguments of deploy's stack operation

\* the other commands
VARIABLES
    supplied,        \* fill_in_current_parameters: the parameters as passed
    parameters,      \* fill_in_current_parameters: the parameters list
    response,        \* the remote's answer being worked on
    stages,          \* _get_pipeline_state: the stageStates answered
    pipeline_state,  \* what _get_pipeline_state returned
    CACHE,           \* the diskcache of ~/.cftcli: the values by key
    args,            \* the parsed command line of the last invocation
    build,           \* watch_build's build
    build_status,    \* watch_build's status
    phase,           \* watch_build's phase
    tracker,         \* watch_build's tracker
    slept,           \* whether watch_build has called time.sleep
    pages,           \* list-stacks: the pages list_stacks answers, in order
    stacks           \* list-stacks: the rows collected

vars == <<cmd, profile, CLOUDFORMATION, pc, stack_status, state, prev_state,
          spinner, fetched, delays, events, calls, listing, failed_resources,
          console, error, exit_code, existed, home, applied, stack_kwargs,
          supplied, parameters, response, stages, pipeline_state, CACHE, args,
          build, build_status, phase, tracker, slept, pages, stacks>>

paramvars == <<supplied, parameters>>
pipevars  == <<stages, pipeline_state>>
cachevars == <<CACHE, args>>
watchvars == <<build, build_status, phase, tracker, slept>>
listvars  == <<pages, stacks>>
toolvars  == <<paramvars, response, pipevars, cachevars, watchvars, listvars>>

\* the files of ~/.aws and the record of the calls that write them
configvars == <<home, applied>>

Commands == {"deploy", "destroy", "attach"}
Modules  == {"deploy", "destroy", "attach"}
Profiles == {"", "dev"}

\* args.stackname
stackname == demo

\* boto3.client('cloudformation'): a handle is known by the session that made it
ImportClient       == [session |-> "import"]
SessionClient(p)   == [session |-> p]

\* messages of the failures of the commands before they poll
NoSrcProfile ==
    <<"n","o"," ","a","t","t","r","i","b","u","t","e"," ","'","s","r","c","_",
      "p","r","o","f","i","l","e","'">>
NoSuchFile      == <<"N","o"," ","s","u","c","h"," ","f","i","l","e">>
IndexOutOfRange ==
    <<"l","i","s","t"," ","i","n","d","e","x"," ","o","u","t"," ","o","f"," ",
      "r","a","n","g","e">>

\* ------------------------------------------------- the files of ~/.aws
\* how many apply_config calls a run makes
MaxApply == 2

\* option names, character by character: configparser lower-cases them
region                == <<"r","e","g","i","o","n">>
aws_access_key_id     ==
    <<"a","w","s","_","a","c","c","e","s","s","_","k","e","y","_","i","d">>
aws_secret_access_key ==
    <<"a","w","s","_","s","e","c","r","e","t","_","a","c","c","e","s","s","_",
      "k","e","y">>
aws_session_token     ==
    <<"a","w","s","_","s","e","s","s","i","o","n","_","t","o","k","e","n">>
output                == <<"o","u","t","p","u","t">>
Output                == <<"O","u","t","p","u","t">>

\* configparser.DEFAULTSECT and the failures of add_section
DEFAULT              == "DEFAULT"
InvalidSectionName   ==
    <<"I","n","v","a","l","i","d"," ","s","e","c","t","i","o","n"," ","n","a",
      "m","e",":"," ","D","E","F","A","U","L","T">>
SectionAlreadyExists ==
    <<"S","e","c","t","i","o","n"," ","a","l","r","e","a","d","y"," ","e","x",
      "i","s","t","s">>

\* mappings (sections by name, options by name)
Empty         == [x \in {} |-> x]
Put(f, k, v)  == [x \in DOMAIN f \cup {k} |-> IF x = k THEN v ELSE f[x]]
Drop(f, k)    == [x \in DOMAIN f \ {k} |-> f[x]]
Option(k, v)  == [x \in {k} |-> v]

\* a file is missing, or holds sections of options
NoFile         == [exists |-> FALSE, sections |-> Empty]
File(sections) == [exists |-> TRUE, sections |-> sections]
NoHome         == [dir |-> FALSE, config |-> NoFile, credentials |-> NoFile]

\* what the two files may hold before a call: a section of the profile with
\* keys of an earlier session, sections of other profiles, a DEFAULT section
OldSession ==
    Put(Put(Put(Option(aws_access_key_id, "AKIAOLD"), aws_secret_access_key,
                "oldsecret"), aws_session_token, "oldtoken"), region, "eu-west-1")
OtherProfile == Put(Option(Output, "json"), region, "ap-south-1")
PriorFiles ==
    { NoFile,
      File(Empty),
      File(Put(Option("dev", OldSession), "prod", OtherProfile)),
      File(Put(Option(DEFAULT, Option(output, "text")), "default", OldSession)) }
Homes ==
    {NoHome} \cup
    { [dir |-> TRUE, config |-> c, credentials |-> k] :
        c \in PriorFiles, k \in PriorFiles }

\* the answers of sts assume_role, and the command line's profile and region
Token(id, secret, session) ==
    [AccessKeyId |-> id, SecretAccessKey |-> secret, SessionToken |-> session]
Tokens         == {Token("AKIA1", "secret1", "token1"), Token("AKIA2", "secret2", "token2")}
ConfigProfiles == {"default", "dev", DEFAULT}
Regions        == {"us-east-1", "eu-west-1"}

\* configparser.ConfigParser(), and RawConfigParser.optionxform
ConfigParser   == [defaults |-> Empty, sections |-> Empty]
optionxform(k) == Lower(k)

\* the options of one section as config.read stores them
ReadOptions(options) ==
    [k \in {optionxform(x) : x \in DOMAIN options} |->
        options[CHOOSE x \in DOMAIN options : optionxform(x) = k]]

\* config.read(config_file): DEFAULT holds the defaults, not a section
read(file) ==
    [defaults |-> IF DEFAULT \in DOMAIN file.sections
                  THEN ReadOptions(file.sections[DEFAULT])
                  ELSE Empty,
     sections |-> [s \in DOMAIN file.sections \ {DEFAULT} |->
                     ReadOptions(file.sections[s])]]

has_section(config, section)    == section \in DOMAIN config.sections
remove_section(config, section) == [config EXCEPT !.sections = Drop(@, section)]

\* what add_section raises
AddSectionFailure(config, section) ==
    IF section = DEFAULT THEN InvalidSectionName
    ELSE IF has_section(config, section) THEN SectionAlreadyExists
    ELSE None
add_section(config, section) == [config EXCEPT !.sections = Put(@, section, Empty)]

\* config.set(section, option, value)
config_set(config, section, option, value) ==
    [config EXCEPT !.sections[section] = Put(@, optionxform(option), value)]

\* config.write(handler): the DEFAULT section is written when it has options
write(config) ==
    File(IF DOMAIN config.defaults = {}
         THEN config.sections
         ELSE Put(config.sections, DEFAULT, config.defaults))

\* _load_config, given whether ~/.aws exists and the file of that name
LoadConfig(dir, file, profile_name) ==
    IF ~dir THEN ConfigParser
    ELSE IF ~file.exists THEN ConfigParser
    ELSE LET config == read(file)
         IN  IF has_section(config, profile_name)
             THEN remove_section(config, profile_name)
             ELSE config

\* apply_config's apply dict, in its order
ApplyItems(token, region_name) ==
    << <<aws_access_key_id, token.AccessKeyId>>,
       <<aws_secret_access_key, token.SecretAccessKey>>,
       <<aws_session_token, token.SessionToken>>,
       <<region, region_name>> >>

\* config_keys with the session token among them
ConfigKeysWithToken == {region, aws_session_token}

\* the keys which are stored in config, all others are stored in credentials
config_keys == {region}

\* the loop over apply.items(), from item i on
RECURSIVE SetItems(_, _, _, _)
SetItems(parsers, profile_name, items, i) ==
    IF i > Len(items) THEN parsers
    ELSE LET key   == items[i][1]
             value == items[i][2]
         IN  SetItems(
               IF key \in config_keys
               THEN [parsers EXCEPT
                       !.config = config_set(@, profile_name, key, value)]
               ELSE [parsers EXCEPT
                       !.credentials = config_set(@, profile_name, key, value)],
               profile_name, items, i + 1)

\* apply_config(token, **kwargs) on the files of h: the failure it raises
\* and the files it leaves
apply_config(token, kwargs, h) ==
    LET credentials == LoadConfig(h.dir, h.credentials, kwargs.profile)
        config      == LoadConfig(TRUE, h.config, kwargs.profile)
        failure     ==
            IF AddSectionFailure(credentials, kwargs.profile) # None
            THEN AddSectionFailure(credentials, kwargs.profile)
            ELSE AddSectionFailure(config, kwargs.profile)
        parsers     ==
            SetItems([credentials |-> add_section(credentials, kwargs.profile),
                      config      |-> add_section(config, kwargs.profile)],
                     kwargs.profile, ApplyItems(token, kwargs.region), 1)
    IN  IF failure # None
        THEN [err |-> failure, home |-> [h EXCEPT !.dir = TRUE]]
        ELSE [err  |-> None,
              home |-> [dir         |-> TRUE,
                        config      |-> write(parsers.config),
                        credentials |-> write(parsers.credentials)]]

\* the values of the variables of the commands that do not run
Unbound   == "unbound"
NoBuild   == [buildComplete |-> FALSE, buildStatus |-> Unbound, currentPhase |-> Unbound]
NoArgs    == [x \in {} |-> x]
ParamIdle == supplied = <<>> /\ parameters = <<>>
PipeIdle  == stages = <<>> /\ pipeline_state = Unbound
CacheIdle == CACHE = Empty /\ args = NoArgs
WatchIdle ==
    /\ build = NoBuild
    /\ build_status = Unbound
    /\ phase = Unbound
    /\ tracker = <<>>
    /\ slept = FALSE
ListIdle  == pages = <<>> /\ stacks = <<>>
ToolsIdle ==
    /\ ParamIdle
    /\ response = None
    /\ PipeIdle
    /\ CacheIdle
    /\ WatchIdle
    /\ ListIdle
ConfigIdle == home = NoHome /\ applied = <<>>

\* stack_exist has not been called
NotCalled == [called |-> FALSE, answer |-> None, result |-> FALSE]

\* deploy and destroy default the profile to 'default'; attach defaults it to ''
Init ==
    /\ cmd \in Commands
    /\ profile \in Profiles
    /\ (cmd = "attach" \/ profile # "")
    /\ CLOUDFORMATION = [m \in Modules |-> ImportClient]
    /\ pc = "start"
    /\ stack_status = None
    /\ state = None
    /\ prev_state = None
    /\ spinner = FALSE
    /\ fetched = <<>>
    /\ delays = <<>>
    /\ events = <<>>
    /\ calls = <<>>
    /\ listing = <<>>
    /\ failed_resources = <<>>
    /\ console = <<>>
    /\ error = None
    /\ exit_code = -1
    /\ existed = NotCalled
    /\ stack_kwargs = {}
    /\ ConfigIdle
    /\ ToolsIdle

pollvars == <<stack_status, state, prev_state, spinner, fetched, delays, events,
              listing, failed_resources, console>>

\* stack_exist, given the answer of describe_stacks: the bare except makes
\* every failure False
stack_exist(ds) == ds.err = None

\* the record of a call of stack_exist: the failure describe_stacks answered
\* (None when it answered a stack) and what stack_exist returned
StackExistCall(ds) == [called |-> TRUE, answer |-> ds.err, result |-> stack_exist(ds)]

\* ------------------------------------------------------------ commands
\* what the describe_stacks call of fill_in_current_parameters raises, given
\* its answer: the call's failure, or response['Stacks'][0] out of range
FillInCurrentFailure(ds) ==
    IF ds.err # None THEN ds.err
    ELSE IF ds.Stacks = <<>> THEN IndexOutOfRange
    ELSE None

\* DeployStack creating the stack after it has updated it
DeployStackBoth(file_ok, ds, ds2, op_err) ==
    IF ~file_ok THEN Raised(NoSuchFile, <<>>)
    ELSE IF stack_exist(ds)
    THEN IF FillInCurrentFailure(ds2) # None
         THEN Raised(FillInCurrentFailure(ds2), <<"describe_stacks", "describe_stacks">>)
         ELSE Result(op_err, None,
                     <<"describe_stacks", "describe_stacks", "update_stack",
                       "create_stack">>, None)
    ELSE Result(op_err, None, <<"describe_stacks", "create_stack">>, None)

\* deploy._main from load_file to create_stack or update_stack: file_ok tells
\* whether the template can be read, ds answers stack_exist, ds2 answers
\* fill_in_current_parameters, op_err is the failure of the stack operation
DeployStack(file_ok, ds, ds2, op_err) ==
    IF ~file_ok THEN Raised(NoSuchFile, <<>>)
    ELSE IF stack_exist(ds)
    THEN IF FillInCurrentFailure(ds2) # None
         THEN Raised(FillInCurrentFailure(ds2), <<"describe_stacks", "describe_stacks">>)
         ELSE Result(op_err, None,
                     <<"describe_stacks", "describe_stacks", "update_stack">>, None)
    ELSE Result(op_err, None, <<"describe_stacks", "create_stack">>, None)

\* the keys of the kwargs deploy._main passes to update_stack or create_stack
\* (no --role given), and no key when neither is called
BaseKwargs   == {"StackName", "TemplateBody", "Parameters", "Capabilities"}
CreateKwargs == BaseKwargs \cup {"OnFailure", "EnableTerminationProtection"}
DeployKwargs(file_ok, ds, ds2) ==
    IF ~file_ok THEN {}
    ELSE IF stack_exist(ds)
    THEN IF FillInCurrentFailure(ds2) # None THEN {} ELSE BaseKwargs
    ELSE CreateKwargs

\* deploy._main up to the call of wait_for_stack
MainDeploy ==
    /\ pc = "start"
    /\ cmd = "deploy"
    /\ CLOUDFORMATION' = [CLOUDFORMATION EXCEPT !["deploy"] = SessionClient(profile)]
    /\ \E file_ok \in BOOLEAN,
          ds \in DescribeStacksResponses(stackname),
          ds2 \in DescribeStacksResponses(stackname),
          op_err \in {None, RateExceeded} :
         LET r == DeployStack(file_ok, ds, ds2, op_err)
         IN  /\ calls' = calls \o r.calls
             /\ error' = r.err
             /\ pc' = IF r.err = None THEN "wait" ELSE "raised"
             /\ existed' = IF file_ok THEN StackExistCall(ds) ELSE NotCalled
             /\ stack_kwargs' = DeployKwargs(file_ok, ds, ds2)
    /\ UNCHANGED <<configvars, toolvars>>
    /\ UNCHANGED <<cmd, profile, exit_code>>
    /\ UNCHANGED pollvars

\* destroy._main up to the call of wait_for_stack
MainDestroy ==
    /\ pc = "start"
    /\ cmd = "destroy"
    /\ CLOUDFORMATION' = [CLOUDFORMATION EXCEPT !["destroy"] = SessionClient(profile)]
    /\ \E op_err \in {None, RateExceeded} :
         /\ calls' = Append(calls, "delete_stack")
         /\ error' = op_err
         /\ pc' = IF op_err = None THEN "wait" ELSE "raised"
    /\ UNCHANGED <<configvars, existed, stack_kwargs, toolvars>>
    /\ UNCHANGED <<cmd, profile, exit_code>>
    /\ UNCHANGED pollvars

\* attach._main up to the call of wait_for_stack: args has no src_profile
MainAttach ==
    /\ pc = "start"
    /\ cmd = "attach"
    /\ IF profile # ""
       THEN /\ error' = NoSrcProfile
            /\ pc' = "raised"
       ELSE /\ error' = None
            /\ pc' = "wait"
    /\ UNCHANGED <<configvars, existed, stack_kwargs, toolvars>>
    /\ UNCHANGED <<cmd, profile, CLOUDFORMATION, calls, exit_code>>
    /\ UNCHANGED pollvars

\* ------------------------------------------------------ wait_for_stack
\* state = get_stack_state(stackname), continuing at next_pc when it returns
GetStackStateStep(next_pc) ==
    /\ Len(fetched) < MaxFetch
    /\ \E ds \in DescribeStacksResponses(stackname),
          dsr \in DescribeStackResourcesResponses(stackname) :
         LET r == get_stack_state(stackname, ds, dsr)
         IN  /\ fetched' = Append(fetched, r)
             /\ stack_status' = StackStatusOf(ds)
             /\ calls' = calls \o r.calls
             /\ events' = Append(events, "get_stack_state")
             /\ IF r.err # None
                THEN /\ error' = r.err
                     /\ pc' = "raised"
                     /\ state' = state
                ELSE /\ error' = error
                     /\ pc' = next_pc
                     /\ state' = r.value
    /\ UNCHANGED <<configvars, existed, stack_kwargs, toolvars>>
    /\ UNCHANGED <<cmd, profile, CLOUDFORMATION, prev_state, spinner, delays,
                   listing, failed_resources, console, exit_code>>

\* line 265
FirstFetch ==
    /\ pc = "wait"
    /\ GetStackStateStep("outer")

\* OuterLoop giving up after two fetches
OuterLoopMaxRetries ==
    /\ pc = "outer"
    /\ IF ~Transitional(state) \/ Len(fetched) >= 2
       THEN /\ pc' = "report"
            /\ UNCHANGED <<prev_state, spinner>>
       ELSE /\ pc' = "inner"
            /\ spinner' = TRUE
            /\ prev_state' = state
    /\ UNCHANGED <<configvars, existed, stack_kwargs, toolvars>>
    /\ UNCHANGED <<cmd, profile, CLOUDFORMATION, stack_status, state, fetched,
                   delays, events, calls, listing, failed_resources, console,
                   error, exit_code>>

\* lines 266-273: leave the loop, or start the spinner and remember the state
OuterLoop ==
    /\ pc = "outer"
    /\ IF ~Transitional(state)
       THEN /\ pc' = "report"
            /\ UNCHANGED <<prev_state, spinner>>
       ELSE /\ pc' = "inner"
            /\ spinner' = TRUE
            /\ prev_state' = state
    /\ UNCHANGED <<configvars, existed, stack_kwargs, toolvars>>
    /\ UNCHANGED <<cmd, profile, CLOUDFORMATION, stack_status, state, fetched,
                   delays, events, calls, listing, failed_resources, console,
                   error, exit_code>>

\* InnerLoop without the break of line 278
InnerLoopNoBreak ==
    /\ pc = "inner"
    /\ pc' = "sleep"
    /\ spinner' = spinner
    /\ UNCHANGED <<configvars, existed, stack_kwargs, toolvars>>
    /\ UNCHANGED <<cmd, profile, CLOUDFORMATION, stack_status, state, prev_state,
                   fetched, delays, events, calls, listing, failed_resources,
                   console, error, exit_code>>

\* line 275 and line 278
InnerLoop ==
    /\ pc = "inner"
    /\ IF prev_state = state
       THEN /\ pc' = "sleep"
            /\ spinner' = spinner
       ELSE /\ pc' = "outer"
            /\ spinner' = FALSE
    /\ UNCHANGED <<configvars, existed, stack_kwargs, toolvars>>
    /\ UNCHANGED <<cmd, profile, CLOUDFORMATION, stack_status, state, prev_state,
                   fetched, delays, events, calls, listing, failed_resources,
                   console, error, exit_code>>

\* Sleep with a delay that grows with every poll
SleepBackoff ==
    /\ pc = "sleep"
    /\ Len(fetched) < MaxFetch
    /\ delays' = Append(delays, TIME_DELAY * (Len(delays) + 1))
    /\ events' = Append(events, "sleep")
    /\ pc' = "fetch"
    /\ UNCHANGED <<configvars, existed, stack_kwargs, toolvars>>
    /\ UNCHANGED <<cmd, profile, CLOUDFORMATION, stack_status, state, prev_state,
                   spinner, fetched, calls, listing, failed_resources, console,
                   error, exit_code>>

\* Sleep making a new client before every poll
SleepNewClient ==
    /\ pc = "sleep"
    /\ Len(fetched) < MaxFetch
    /\ delays' = Append(delays, TIME_DELAY)
    /\ events' = Append(events, "sleep")
    /\ pc' = "fetch"
    /\ CLOUDFORMATION' =
         [CLOUDFORMATION EXCEPT !["deploy"] = [session |-> "poll"]]
    /\ UNCHANGED <<configvars, existed, stack_kwargs, toolvars>>
    /\ UNCHANGED <<cmd, profile, stack_status, state, prev_state,
                   spinner, fetched, calls, listing, failed_resources, console,
                   error, exit_code>>

\* line 276
Sleep ==
    /\ pc = "sleep"
    /\ Len(fetched) < MaxFetch
    /\ delays' = Append(delays, TIME_DELAY)
    /\ events' = Append(events, "sleep")
    /\ pc' = "fetch"
    /\ UNCHANGED <<configvars, existed, stack_kwargs, toolvars>>
    /\ UNCHANGED <<cmd, profile, CLOUDFORMATION, stack_status, state, prev_state,
                   spinner, fetched, calls, listing, failed_resources, console,
                   error, exit_code>>

\* line 277
NextFetch ==
    /\ pc = "fetch"
    /\ GetStackStateStep("inner")

\* StateColor remembering a bad state of an earlier poll
StateColorSticky(s) ==
    IF \/ IsBadState(s)
       \/ \E i \in 1..Len(fetched) :
            fetched[i].err = None /\ IsBadState(fetched[i].value)
    THEN "red" ELSE "green"

\* the colour wait_for_stack gives a state it has left the loop with
StateColor(s) == IF IsBadState(s) THEN "red" ELSE "green"

\* ReportOutput with the status line printed first
ReportOutputLineFirst(failed, s) ==
    <<StatusLine(stackname, s, "red"), display_table(failed)>>

\* lines 284-288 on a bad state: the table, then the red status line
ReportOutput(failed, s) ==
    <<display_table(failed), StatusLine(stackname, s, "red")>>

\* lines 280-288
Report ==
    /\ pc = "report"
    /\ IF StateColor(state) = "red"
       THEN \E dsr \in DescribeStackResourcesResponses(stackname) :
              LET r == get_failed_resources(dsr)
              IN  /\ calls' = calls \o r.calls
                  /\ listing' = dsr.StackResources
                  /\ failed_resources' = r.value
                  /\ IF r.err # None
                     THEN /\ events' = Append(events, "get_failed_resources")
                          /\ error' = r.err
                          /\ pc' = "raised"
                          /\ console' = console
                     ELSE /\ events' = events \o <<"get_failed_resources",
                                                    "display_table", "print">>
                          /\ error' = error
                          /\ pc' = "returned"
                          /\ console' = console \o ReportOutput(r.value, state)
       ELSE /\ calls' = calls
            /\ UNCHANGED <<listing, failed_resources>>
            /\ events' = Append(events, "print")
            /\ error' = error
            /\ pc' = "returned"
            /\ console' = Append(console, StatusLine(stackname, state, "green"))
    /\ UNCHANGED <<configvars, existed, stack_kwargs, toolvars>>
    /\ UNCHANGED <<cmd, profile, CLOUDFORMATION, stack_status, state, prev_state,
                   spinner, fetched, delays, exit_code>>

\* the status the process ends with: 1 when an exception propagates out of
\* _main, 0 when _main returns
ExitStatus(at) == IF at = "raised" THEN 1 ELSE 0

\* _main returns, or an exception leaves it
Exit ==
    /\ pc \in {"returned", "raised"}
    /\ exit_code' = ExitStatus(pc)
    /\ pc' = "exited"
    /\ UNCHANGED <<configvars, existed, stack_kwargs, toolvars>>
    /\ UNCHANGED <<cmd, profile, CLOUDFORMATION, calls, error>>
    /\ UNCHANGED pollvars

Next ==
    \/ MainDeploy
    \/ MainDestroy
    \/ MainAttach
    \/ FirstFetch
    \/ OuterLoop
    \/ InnerLoop
    \/ Sleep
    \/ NextFetch
    \/ Report
    \/ Exit

Spec == Init /\ [][Next]_vars

\* attach-stack without a profile: wait_for_stack and nothing before it
InitAttach ==
    /\ Init
    /\ cmd = "attach"
    /\ profile = ""

NextAttach ==
    \/ MainAttach
    \/ FirstFetch
    \/ OuterLoop
    \/ InnerLoop
    \/ Sleep
    \/ NextFetch
    \/ Report
    \/ Exit

\* the command is one thread that runs on until it ends: the remote calls
\* and time.sleep return, so a step that can be taken is taken
FairSpec == InitAttach /\ [][NextAttach]_vars /\ WF_vars(NextAttach)

\* ------------------------------------------------- the credential files
\* a run of apply_config calls, from any prior content of ~/.aws
InitConfig ==
    /\ cmd = "assume_role"
    /\ profile = ""
    /\ CLOUDFORMATION = [m \in Modules |-> ImportClient]
    /\ pc = "start"
    /\ stack_status = None
    /\ state = None
    /\ prev_state = None
    /\ spinner = FALSE
    /\ fetched = <<>>
    /\ delays = <<>>
    /\ events = <<>>
    /\ calls = <<>>
    /\ listing = <<>>
    /\ failed_resources = <<>>
    /\ console = <<>>
    /\ error = None
    /\ exit_code = -1
    /\ existed = NotCalled
    /\ stack_kwargs = {}
    /\ ToolsIdle
    /\ home \in Homes
    /\ applied = <<>>

\* one call apply_config(token, profile=..., region=...)
ApplyConfig ==
    /\ Len(applied) < MaxApply
    /\ \E token \in Tokens, profile_name \in ConfigProfiles,
          region_name \in Regions :
         LET r == apply_config(token,
                               [profile |-> profile_name, region |-> region_name],
                               home)
         IN  /\ home' = r.home
             /\ applied' = Append(applied,
                                  [token |-> token, profile |-> profile_name,
                                   region |-> region_name, err |-> r.err])
    /\ UNCHANGED <<cmd, profile, CLOUDFORMATION, pc, existed, calls, error,
                   exit_code, stack_kwargs, toolvars>>
    /\ UNCHANGED pollvars

NextConfig == ApplyConfig

SpecConfig == InitConfig /\ [][NextConfig]_vars

\* --------------------------------------- fill_in_current_parameters
\* how many parameters the command line supplies
MaxParameters == 2

\* the parameters of the command line and of the current stack
Parameter(key, value) == [ParameterKey |-> key, ParameterValue |-> value]
UsePrevious(key)      == [ParameterKey |-> key, UsePreviousValue |-> TRUE]
SuppliedParameters ==
    {Parameter(k, v) : k \in {"Env", "Size"}, v \in {"1", "2"}}
SuppliedLists ==
    UNION {[1..n -> SuppliedParameters] : n \in 0..MaxParameters}

\* the Parameters of a stack have distinct keys
StackParameterLists ==
    {<<>>} \cup
    {<<Parameter(a, "0")>> : a \in {"Env", "Size", "Vpc"}} \cup
    {<<Parameter(ab[1], "0"), Parameter(ab[2], "0")>> :
        ab \in {xy \in {"Env", "Size", "Vpc"} \X {"Env", "Size", "Vpc"} :
                    xy[1] # xy[2]}} \cup
    {<<Parameter("Vpc", "0"), Parameter("Size", "0"), Parameter("Env", "0")>>}

\* describe_stacks answers: a stack with Parameters, a stack without the
\* key, no stack, or a failure
ParameterResponses ==
    {[err |-> None, Stacks |-> <<[Parameters |-> ps]>>] : ps \in StackParameterLists}
    \cup {[err |-> None, Stacks |-> <<[StackName |-> demo]>>],
          [err |-> None, Stacks |-> <<>>],
          [err |-> RateExceeded, Stacks |-> <<>>]}

\* current: the keys of the parameters passed
RECURSIVE CurrentKeys(_)
CurrentKeys(records) ==
    IF records = <<>> THEN <<>>
    ELSE <<Head(records).ParameterKey>> \o CurrentKeys(Tail(records))

\* x in a list
InList(x, list) == \E i \in 1..Len(list) : list[i] = x

\* NotInCurrent whatever the key
NotInCurrentAlways(record, current) == TRUE

\* not record['ParameterKey'] in current
NotInCurrent(record, current) == ~InList(record.ParameterKey, current)

\* the loop over the stack's parameters, appending to the list passed
RECURSIVE AppendPrevious(_, _, _)
AppendPrevious(list, records, current) ==
    IF records = <<>> THEN list
    ELSE AppendPrevious(
           IF NotInCurrent(Head(records), current)
           THEN Append(list, UsePrevious(Head(records).ParameterKey))
           ELSE list,
           Tail(records), current)

\* response['Stacks'][0].get('Parameters', [])
StackParametersOf(answer) ==
    IF "Parameters" \in DOMAIN answer.Stacks[1]
    THEN answer.Stacks[1].Parameters
    ELSE <<>>

\* fill_in_current_parameters(parameters, stack), given the answer of
\* describe_stacks
fill_in_current_parameters(list, answer) ==
    IF FillInCurrentFailure(answer) # None
    THEN Raised(FillInCurrentFailure(answer), <<"describe_stacks">>)
    ELSE Returned(AppendPrevious(list, StackParametersOf(answer), CurrentKeys(list)),
                  <<"describe_stacks">>)

InitParameters ==
    /\ Init
    /\ cmd = "deploy"
    /\ profile = "dev"

\* deploy._main at line 407, its parameters being any list
StartParameters ==
    /\ pc = "start"
    /\ \E list \in SuppliedLists :
         /\ supplied' = list
         /\ parameters' = list
    /\ pc' = "fill"
    /\ UNCHANGED <<cmd, profile, CLOUDFORMATION, calls, error, exit_code, existed,
                   stack_kwargs, configvars, response, pipevars, cachevars,
                   watchvars, listvars>>
    /\ UNCHANGED pollvars

\* parameters = fill_in_current_parameters(parameters, args.stackname)
FillInCurrentParameters ==
    /\ pc = "fill"
    /\ \E answer \in ParameterResponses :
         LET r == fill_in_current_parameters(parameters, answer)
         IN  /\ response' = answer
             /\ calls' = calls \o r.calls
             /\ error' = r.err
             /\ parameters' = IF r.err = None THEN r.value ELSE parameters
             /\ pc' = IF r.err = None THEN "filled" ELSE "raised"
    /\ UNCHANGED <<cmd, profile, CLOUDFORMATION, exit_code, existed, stack_kwargs,
                   configvars, supplied, pipevars, cachevars, watchvars, listvars>>
    /\ UNCHANGED pollvars

NextParameters ==
    \/ StartParameters
    \/ FillInCurrentParameters

SpecParameters == InitParameters /\ [][NextParameters]_vars

\* ------------------------------------------------ the other commands
\* what the commands below never touch
quietvars == <<cmd, profile, CLOUDFORMATION, existed, stack_kwargs, configvars,
               stack_status, state, prev_state, fetched, delays, events,
               listing, failed_resources>>

\* the state in which a command of setup.py's entry_points starts
InitCommand(name, profiles) ==
    /\ cmd = name
    /\ profile \in profiles
    /\ CLOUDFORMATION = [m \in Modules |-> ImportClient]
    /\ pc = "start"
    /\ stack_status = None
    /\ state = None
    /\ prev_state = None
    /\ spinner = FALSE
    /\ fetched = <<>>
    /\ delays = <<>>
    /\ events = <<>>
    /\ calls = <<>>
    /\ listing = <<>>
    /\ failed_resources = <<>>
    /\ console = <<>>
    /\ error = None
    /\ exit_code = -1
    /\ existed = NotCalled
    /\ stack_kwargs = {}
    /\ ConfigIdle

\* ----------------------------------------------------- list_pipelines
\* how many stages a pipeline has
MaxStages == 3

STATE_COLOR == [Failed |-> "red", Succeeded |-> "green", InProgress |-> "blue"]

KeyLatestExecution ==
    <<"'","l","a","t","e","s","t","E","x","e","c","u","t","i","o","n","'">>

\* the stageStates of get_pipeline_state: a stage that never ran has no
\* latestExecution
StageStatuses ==
    {"Succeeded", "InProgress", "Failed", "Cancelled", "Stopped", "Stopping"}
StageContexts ==
    {[stageName |-> "stage", latestExecution |-> [status |-> s]] : s \in StageStatuses}
    \cup {[stageName |-> "stage"]}
StageLists == UNION {[1..n -> StageContexts] : n \in 0..MaxStages}

FailedStatuses == {"Failed", "Cancelled", "Stopped", "Stopping"}

\* the for loop of _get_pipeline_state: the first stage that is failed or
\* in progress decides
RECURSIVE StateOfStages(_)
StateOfStages(contexts) ==
    IF contexts = <<>> THEN Returned("Succeeded", <<>>)
    ELSE IF "latestExecution" \notin DOMAIN Head(contexts)
    THEN Raised(KeyLatestExecution, <<>>)
    ELSE IF Head(contexts).latestExecution.status \in FailedStatuses
    THEN Returned("Failed", <<>>)
    ELSE IF Head(contexts).latestExecution.status \in {"InProgress"}
    THEN Returned("InProgress", <<>>)
    ELSE StateOfStages(Tail(contexts))

\* _get_pipeline_state(pipeline), given the answer of get_pipeline_state
_get_pipeline_state(answer) ==
    IF answer.err # None THEN Raised(answer.err, <<"get_pipeline_state">>)
    ELSE LET r == StateOfStages(answer.stageStates)
         IN  Result(r.err, r.value, <<"get_pipeline_state">>, None)

PipelineStateResponses ==
    {[err |-> None, stageStates |-> l] : l \in StageLists}
    \cup {[err |-> RateExceeded, stageStates |-> <<>>]}

InitPipelines ==
    /\ InitCommand("list-pipelines", {""})
    /\ ToolsIdle

\* _main at line 130: _get_pipeline_state(pipeline['name']) for a pipeline
\* of the page
GetPipelineState ==
    /\ pc = "start"
    /\ \E answer \in PipelineStateResponses :
         LET r == _get_pipeline_state(answer)
         IN  /\ stages' = answer.stageStates
             /\ calls' = calls \o r.calls
             /\ error' = r.err
             /\ pipeline_state' = IF r.err = None THEN r.value ELSE pipeline_state
             /\ pc' = IF r.err = None THEN "stated" ELSE "raised"
    /\ UNCHANGED <<quietvars, spinner, console, exit_code, paramvars, response,
                   cachevars, watchvars, listvars>>

\* _main at lines 130-135: color = STATE_COLOR[...] and the row of the table
ColorPipeline ==
    /\ pc = "stated"
    /\ IF pipeline_state \in DOMAIN STATE_COLOR
       THEN /\ console' = Append(console, [Name |-> demo,
                                           color |-> STATE_COLOR[pipeline_state]])
            /\ pc' = "colored"
            /\ error' = error
       ELSE /\ console' = console
            /\ pc' = "raised"
            /\ error' = <<"'">> \o <<pipeline_state>> \o <<"'">>
    /\ UNCHANGED <<quietvars, spinner, calls, exit_code, paramvars, response,
                   pipevars, cachevars, watchvars, listvars>>

NextPipelines ==
    \/ GetPipelineState
    \/ ColorPipeline

SpecPipelines == InitPipelines /\ [][NextPipelines]_vars

\* ------------------------------------------------------------ the cache
\* the keys save_cache writes, in its order, and the defaults of _options
CacheKeys ==
    <<"profile", "buildspec", "region", "codebuild", "rolearn", "src_artifact",
      "dst_artifact", "bucket", "bucket_path">>
CacheKeySet == {CacheKeys[i] : i \in 1..Len(CacheKeys)}
FlagDefault(k) ==
    IF k = "codebuild" THEN "DefaultCodeBuild"
    ELSE IF k = "bucket_path" THEN "cftcli"
    ELSE ""

\* the command lines: each of these flags is given a value or left out
\* (the environment variables are not set)
FlagValues ==
    [profile   |-> {"dev", "prod"},
     region    |-> {"us-east-1", "eu-west-1"},
     codebuild |-> {"ProjectA", "ProjectB"}]
CommandLines ==
    UNION {{given \in [given_keys -> UNION {FlagValues[k] : k \in given_keys}] :
               \A k \in given_keys : given[k] \in FlagValues[k]} :
           given_keys \in SUBSET DOMAIN FlagValues}

\* diskcache: Cache.get(key, default), and Cache.add(key, value, expire),
\* which stores the value only if the key is not in the cache
CacheGet(cache, k, default) == IF k \in DOMAIN cache THEN cache[k] ELSE default
CacheAdd(cache, k, v)       == IF k \in DOMAIN cache THEN cache ELSE Put(cache, k, v)

\* _options(): a flag left out defaults to the cached value
_options(cache, given) ==
    [k \in CacheKeySet |->
        IF k \in DOMAIN given THEN given[k]
        ELSE CacheGet(cache, k, FlagDefault(k))]

\* save_cache(args), from key i on
RECURSIVE save_cache(_, _, _)
save_cache(cache, a, i) ==
    IF i > Len(CacheKeys) THEN cache
    ELSE save_cache(CacheAdd(cache, CacheKeys[i], a[CacheKeys[i]]), a, i + 1)

InitCache ==
    /\ InitCommand("codebuild", {""})
    /\ ToolsIdle

\* codebuild._main at lines 252-253: args = _options(); save_cache(args)
InvokeCodebuild ==
    /\ pc = "start"
    /\ \E given \in CommandLines :
         /\ args' = _options(CACHE, given)
         /\ CACHE' = save_cache(CACHE, _options(CACHE, given), 1)
    /\ pc' = "saved"
    /\ UNCHANGED <<quietvars, spinner, console, calls, error, exit_code,
                   paramvars, response, pipevars, watchvars, listvars>>

\* the command ends; the cache directory stays for the next invocation
ExitCommand ==
    /\ pc = "saved"
    /\ pc' = "start"
    /\ UNCHANGED <<quietvars, spinner, console, calls, error, exit_code,
                   paramvars, response, pipevars, cachevars, watchvars, listvars>>

\* CACHETIME after it was added, a key has expired
Expire ==
    /\ pc = "start"
    /\ \E k \in DOMAIN CACHE : CACHE' = Drop(CACHE, k)
    /\ UNCHANGED <<quietvars, pc, spinner, console, calls, error, exit_code,
                   paramvars, response, pipevars, args, watchvars, listvars>>

\* assume_role --purge: CACHE.clear()
Purge ==
    /\ pc = "start"
    /\ CACHE # Empty
    /\ CACHE' = Empty
    /\ UNCHANGED <<quietvars, pc, spinner, console, calls, error, exit_code,
                   paramvars, response, pipevars, args, watchvars, listvars>>

NextCache ==
    \/ InvokeCodebuild
    \/ ExitCommand
    \/ Expire
    \/ Purge

SpecCache == InitCache /\ [][NextCache]_vars

\* ----------------------------------------------------------- watch_build
UnboundPhase ==
    <<"l","o","c","a","l"," ","v","a","r","i","a","b","l","e"," ","'","p","h","a","s","e","'"," ","r","e","f","e","r","e","n","c","e","d"," ","b","e","f","o","r","e"," ","a","s","s","i","g","n","m","e","n","t">>
KeyLogs == <<"'","l","o","g","s","'">>

\* the builds batch_get_builds answers: a build that is complete is no
\* longer IN_PROGRESS
BuildStatuses == {"IN_PROGRESS", "SUCCEEDED", "FAILED"}
BuildPhases   == {"BUILD", "POST_BUILD", "COMPLETED"}
Builds ==
    {b \in [buildComplete : BOOLEAN, buildStatus : BuildStatuses,
            currentPhase : BuildPhases] :
        b.buildComplete => b.buildStatus # "IN_PROGRESS"}
BuildResponses ==
    {[err |-> None, builds |-> <<b>>] : b \in Builds}
    \cup {[err |-> None, builds |-> <<>>],
          [err |-> RateExceeded, builds |-> <<>>]}

\* what CODEBUILD.batch_get_builds(ids=[build_id])['builds'][0] raises
BuildFailure(answer) ==
    IF answer.err # None THEN answer.err
    ELSE IF answer.builds = <<>> THEN IndexOutOfRange
    ELSE None

\* '-'.join([status, phase]), as its pieces (no status or phase of the
\* remote contains '-')
JoinTracker(s, p) == <<s, "-", p>>

\* while tracker == '-'.join([status, phase])
InnerContinues == tracker = JoinTracker(build_status, phase)

\* the log events of the build, and event['message'].strip().strip('[Container]')
LogMessages == {<<>>, <<<<"[","C","o","n","t","a","i","n","e","r","]"," ","d","o","n","e"," ">>>>}
RECURSIVE LStrip(_, _)
LStrip(s, chars) ==
    IF s # <<>> /\ Head(s) \in chars THEN LStrip(Tail(s), chars) ELSE s
RECURSIVE RStrip(_, _)
RStrip(s, chars) ==
    IF s # <<>> /\ s[Len(s)] \in chars
    THEN RStrip(SubSeq(s, 1, Len(s) - 1), chars)
    ELSE s
Strip(s, chars) == RStrip(LStrip(s, chars), chars)
Whitespace     == {" "}
ContainerChars == {"[", "C", "o", "n", "t", "a", "i", "e", "r", "]"}
EventLine(message) ==
    [kind |-> "event", text |-> Strip(Strip(message, Whitespace), ContainerChars)]
RECURSIVE EventLines(_)
EventLines(messages) ==
    IF messages = <<>> THEN <<>>
    ELSE <<EventLine(Head(messages))>> \o EventLines(Tail(messages))

\* print(f'build complete with status {colored(phase, color)}')
BuildLine(p, color) == [kind |-> "build complete", phase |-> p, color |-> color]

InitWatch ==
    /\ InitCommand("codebuild", {""})
    /\ ToolsIdle

watchframe == <<quietvars, calls, exit_code, paramvars, response, pipevars,
                cachevars, listvars>>

\* line 164: the first batch_get_builds
FirstBuild ==
    /\ pc = "start"
    /\ \E answer \in BuildResponses :
         IF BuildFailure(answer) # None
         THEN /\ error' = BuildFailure(answer)
              /\ pc' = "raised"
              /\ build' = build
         ELSE /\ error' = error
              /\ pc' = "outer"
              /\ build' = answer.builds[1]
    /\ UNCHANGED <<watchframe, spinner, console, build_status, phase, tracker, slept>>

\* lines 166-176: the outer loop's test and the top of its body
OuterBuildLoop ==
    /\ pc = "outer"
    /\ IF build.buildComplete
       THEN /\ pc' = "report"
            /\ UNCHANGED <<build_status, phase, tracker, spinner>>
       ELSE /\ build_status' = build.buildStatus
            /\ phase' = build.currentPhase
            /\ IF build.buildStatus # "IN_PROGRESS" \/ build.currentPhase = "COMPLETED"
               THEN /\ pc' = "report"
                    /\ UNCHANGED <<tracker, spinner>>
               ELSE /\ spinner' = TRUE
                    /\ tracker' = JoinTracker(build.buildStatus, build.currentPhase)
                    /\ pc' = "inner"
    /\ UNCHANGED <<watchframe, console, error, build, slept>>

\* line 177, and line 183 when the inner loop is left
InnerBuildLoop ==
    /\ pc = "inner"
    /\ IF InnerContinues
       THEN /\ pc' = "sleep"
            /\ spinner' = spinner
       ELSE /\ pc' = "refetch"
            /\ spinner' = FALSE
    /\ UNCHANGED <<watchframe, console, error, watchvars>>

\* line 178: time.sleep(TIME_DELAY)
SleepBuild ==
    /\ pc = "sleep"
    /\ slept' = TRUE
    /\ pc' = "fetch"
    /\ UNCHANGED <<watchframe, spinner, console, error, build, build_status,
                   phase, tracker>>

\* lines 179-181: the inner loop's batch_get_builds; phase is refreshed,
\* status is not
InnerFetchBuild ==
    /\ pc = "fetch"
    /\ \E answer \in BuildResponses :
         IF BuildFailure(answer) # None
         THEN /\ error' = BuildFailure(answer)
              /\ pc' = "raised"
              /\ UNCHANGED <<build, phase>>
         ELSE /\ error' = error
              /\ pc' = "inner"
              /\ build' = answer.builds[1]
              /\ phase' = answer.builds[1].currentPhase
    /\ UNCHANGED <<watchframe, spinner, console, build_status, tracker, slept>>

\* line 184: the batch_get_builds that ends the outer loop's body
OuterFetchBuild ==
    /\ pc = "refetch"
    /\ \E answer \in BuildResponses :
         IF BuildFailure(answer) # None
         THEN /\ error' = BuildFailure(answer)
              /\ pc' = "raised"
              /\ build' = build
         ELSE /\ error' = error
              /\ pc' = "outer"
              /\ build' = answer.builds[1]
    /\ UNCHANGED <<watchframe, spinner, console, build_status, phase, tracker, slept>>

\* lines 186-191: the colour and the line printed; phase is unbound when
\* the loop's body never ran
ReportBuild ==
    /\ pc = "report"
    /\ IF phase = Unbound
       THEN /\ error' = UnboundPhase
            /\ pc' = "raised"
            /\ console' = console
       ELSE /\ error' = error
            /\ pc' = "logs"
            /\ console' = Append(console,
                                 BuildLine(phase, IF phase # "COMPLETED"
                                                  THEN "red" ELSE "green"))
    /\ UNCHANGED <<watchframe, spinner, watchvars>>

\* lines 194-208: the log events are printed and the build is returned
PrintLogs ==
    /\ pc = "logs"
    /\ \/ \E failure \in {KeyLogs, RateExceeded} :
            /\ error' = failure
            /\ pc' = "raised"
            /\ console' = console
       \/ \E messages \in LogMessages :
            /\ error' = error
            /\ pc' = "returned"
            /\ console' = console \o EventLines(messages)
    /\ UNCHANGED <<watchframe, spinner, watchvars>>

NextWatch ==
    \/ FirstBuild
    \/ OuterBuildLoop
    \/ InnerBuildLoop
    \/ SleepBuild
    \/ InnerFetchBuild
    \/ OuterFetchBuild
    \/ ReportBuild
    \/ PrintLogs

SpecWatch == InitWatch /\ [][NextWatch]_vars

\* the interpreter goes on running watch_build while a step is left
FairSpecWatch == SpecWatch /\ WF_vars(NextWatch)

\* ------------------------------------------------------------ stack-detail
\* how many stacks a command line or a cached list names
MaxStacks == 2

NotJsonText ==
    <<"t","h","e"," ","J","S","O","N"," ","o","b","j","e","c","t"," ","m","u","s","t"," ","b","e"," ","s","t","r",","," ","b","y","t","e","s"," ","o","r"," ","b","y","t","e","a","r","r","a","y",","," ","n","o","t"," ","l","i","s","t">>
StackNameRequired ==
    <<"A"," ","S","t","a","c","k","N","a","m","e"," ","i","s"," ","r","e","q","u","i","r","e","d">>

\* Python values of two types: a str (its characters) and a list of str
PyStr(chars)  == [type |-> "str", value |-> chars]
PyList(items) == [type |-> "list", value |-> items]
Truthy(v)     == v.value # <<>>

StackNames == {<<"a","p","p">>, <<"d","b">>}
NameLists  == UNION {[1..n -> StackNames] : n \in 0..MaxStacks}

\* json.dumps of a list of str: '["app", "db"]'
RECURSIVE Quoted(_)
Quoted(names) ==
    IF names = <<>> THEN <<>>
    ELSE <<(<<"\"">> \o Head(names) \o <<"\"">>)>> \o Quoted(Tail(names))
dumps(names) == <<"[">> \o Join(<<",", " ">>, Quoted(names)) \o <<"]">>

\* json.loads of such a text: the strings between the quotes, in order
RECURSIVE ScanStrings(_, _, _, _, _)
ScanStrings(text, i, current, inside, acc) ==
    IF i > Len(text) THEN acc
    ELSE IF text[i] = "\""
    THEN IF inside
         THEN ScanStrings(text, i + 1, <<>>, FALSE, Append(acc, current))
         ELSE ScanStrings(text, i + 1, <<>>, TRUE, acc)
    ELSE IF inside
    THEN ScanStrings(text, i + 1, Append(current, text[i]), TRUE, acc)
    ELSE ScanStrings(text, i + 1, current, FALSE, acc)

\* json.loads(v): a TypeError unless v is a str
loads(v) ==
    IF v.type # "str" THEN Raised(NotJsonText, <<>>)
    ELSE Returned(ScanStrings(v.value, 1, <<>>, FALSE, <<>>), <<>>)

\* the command lines and the caches stack-detail may start from: 'stacks' as
\* line 327 writes it, 'stackname' as a str
DetailArgs ==
    [stacks : NameLists, profile : {"", "dev"}, region : {""}]
DetailCaches ==
    {Empty} \cup
    {Option("stacks", PyStr(dumps(l))) : l \in NameLists \ {<<>>}} \cup
    {Option("stackname", PyStr(n)) : n \in StackNames \cup {<<>>}} \cup
    {Put(Option("stacks", PyStr(dumps(l))), "stackname", PyStr(n)) :
        l \in NameLists \ {<<>>}, n \in StackNames}

\* lines 306-314: no positional argument, no cached 'stacks', no cached
\* 'stackname'
StackNameMissing(a, cache) ==
    /\ a.stacks = <<>>
    /\ ~Truthy(CacheGet(cache, "stacks", PyList(<<>>)))
    /\ ~Truthy(CacheGet(cache, "stackname", PyStr(<<>>)))

\* lines 306-317: the stacks to display when a name is at hand
ChosenStacks(a, cache) ==
    IF a.stacks # <<>> THEN Returned(a.stacks, <<>>)
    ELSE LET cached == CacheGet(cache, "stacks", PyList(<<>>))
             stack  == CacheGet(cache, "stackname", PyStr(<<>>))
         IN  IF Truthy(cached) THEN loads(cached)
             ELSE loads(PyList(<<stack.value>>))

\* what _display_stack prints and calls, by how far it gets
DetailLine(kind, name) == [kind |-> kind, stackname |-> name]
DisplaySteps ==
    << [call |-> "describe_stacks",          line |-> "Stack Detail"],
       [call |-> "describe_stack_resources", line |-> "none"],
       [call |-> "describe_stack_events",    line |-> "Events"] >>
RECURSIVE DisplayedLines(_, _, _)
DisplayedLines(name, n, i) ==
    IF i > n THEN <<>>
    ELSE (IF DisplaySteps[i].line = "none" THEN <<>>
          ELSE <<DetailLine(DisplaySteps[i].line, name)>>)
         \o DisplayedLines(name, n, i + 1)

\* the stacks whose 'Stack Detail' table is printed, in order
RECURSIVE Displayed(_)
Displayed(lines) ==
    IF lines = <<>> THEN <<>>
    ELSE (IF Head(lines).kind = "Stack Detail"
          THEN <<Head(lines).stackname>> ELSE <<>>) \o Displayed(Tail(lines))

InitDetail ==
    /\ InitCommand("stack-detail", {""})
    /\ ParamIdle /\ PipeIdle /\ WatchIdle /\ ListIdle
    /\ response = None
    /\ args \in DetailArgs
    /\ CACHE \in DetailCaches

detailframe == <<quietvars, spinner, paramvars, response, pipevars, watchvars,
                 pages, args>>

\* _main at lines 306-317
ChooseStacks ==
    /\ pc = "start"
    /\ LET r == ChosenStacks(args, CACHE)
       IN  IF StackNameMissing(args, CACHE)
           THEN /\ console' = Append(console, DetailLine("message", StackNameRequired))
                /\ exit_code' = 1
                /\ pc' = "exited"
                /\ UNCHANGED <<error, stacks>>
           ELSE IF r.err # None
           THEN /\ error' = r.err
                /\ pc' = "raised"
                /\ UNCHANGED <<console, exit_code, stacks>>
           ELSE /\ stacks' = r.value
                /\ pc' = IF r.value = <<>> THEN "displayed" ELSE "display"
                /\ UNCHANGED <<console, exit_code, error>>
    /\ UNCHANGED <<detailframe, calls, CACHE>>

\* _display_stack(stack) for the next stack of the list: its three requests,
\* any of which may fail
DisplayStack ==
    /\ pc = "display"
    /\ LET stack == stacks[Len(Displayed(console)) + 1]
           last  == Len(Displayed(console)) + 1 = Len(stacks)
       IN  \/ /\ calls' = calls \o [i \in 1..3 |-> DisplaySteps[i].call]
              /\ console' = console \o DisplayedLines(stack, 3, 1)
                              \o <<DetailLine("Resources", stack)>>
              /\ pc' = IF last THEN "displayed" ELSE "display"
              /\ error' = error
           \/ \E n \in 1..3 :
                /\ calls' = calls \o [i \in 1..n |-> DisplaySteps[i].call]
                /\ console' = console \o DisplayedLines(stack, n - 1, 1)
                /\ pc' = "raised"
                /\ error' = RateExceeded
    /\ UNCHANGED <<detailframe, exit_code, CACHE, stacks>>

\* lines 327-330: the cache is written after the last stack
SaveStacks ==
    /\ pc = "displayed"
    /\ LET c1 == CacheAdd(CACHE, "stacks", PyStr(dumps(stacks)))
           c2 == CacheAdd(c1, "region", PyStr(args.region))
       IN  CACHE' = IF args.profile # ""
                    THEN CacheAdd(c2, "profile", PyStr(args.profile))
                    ELSE c2
    /\ pc' = "returned"
    /\ UNCHANGED <<detailframe, calls, console, error, exit_code, stacks>>

NextDetail ==
    \/ ChooseStacks
    \/ DisplayStack
    \/ SaveStacks

SpecDetail == InitDetail /\ [][NextDetail]_vars

\* ------------------------------------------------------------ list-stacks
\* how many pages the remote's listing has at most
MaxPages == 3

UPDATE_ROLLBACK_FAILED == UPDATE \o Us \o ROLLBACK \o Us \o FAILED

\* str() of a time
TimeText(t) == <<"2","0","2","6","-","0","1","-","0">> \o <<Chars[4 + t]>>

\* the stack summaries of list_stacks; LastUpdatedTime is 0 when the
\* summary has none
Summary(name, status, created, updated) ==
    IF updated = 0
    THEN [StackName |-> name, StackStatus |-> status, CreationTime |-> created]
    ELSE [StackName |-> name, StackStatus |-> status, CreationTime |-> created,
          LastUpdatedTime |-> updated]
app == <<"a","p","p">>
db  == <<"d","b">>
SummaryLists ==
    { <<>>,
      <<Summary(app, CREATE_COMPLETE, 1, 0), Summary(db, DELETE_COMPLETE, 1, 2)>>,
      <<Summary(db, UPDATE_ROLLBACK_FAILED, 1, 2),
        Summary(app, UPDATE_ROLLBACK_IN_PROGRESS, 1, 2)>>,
      <<Summary(demo, CREATE_IN_PROGRESS, 2, 0), Summary(app, CREATE_FAILED, 1, 0),
        Summary(db, UPDATE_ROLLBACK_COMPLETE, 1, 2)>> }

\* the answers of list_stacks after n pages: a page with or without a
\* NextToken (the listing ends by page MaxPages), or a failure
ListStacksResponses(n) ==
    {[err |-> None, StackSummaries |-> l] : l \in SummaryLists}
    \cup {[err |-> None, StackSummaries |-> l, NextToken |-> "token"] :
            l \in IF n + 1 < MaxPages THEN SummaryLists ELSE {}}
    \cup {[err |-> RateExceeded, StackSummaries |-> <<>>]}

\* the colour of a status with 'ROLLBACK' tested before 'FAILED'
StackColorRollbackFirst(status) ==
    IF Contains(ROLLBACK, status) THEN "yellow"
    ELSE IF Contains(FAILED, status) THEN "red"
    ELSE IF Contains(IN_PROGRESS, status) THEN "blue"
    ELSE "green"

\* lines 106-112: the colour of a status
StackColor(status) ==
    IF Contains(FAILED, status) THEN "red"
    ELSE IF Contains(ROLLBACK, status) THEN "yellow"
    ELSE IF Contains(IN_PROGRESS, status) THEN "blue"
    ELSE "green"

\* colored(text, color)
Colored(text, color) == [text |-> text, color |-> color]

\* lines 114-121: the record of a summary
StackRecord(summary) ==
    [name   |-> summary.StackName,
     status |-> Colored(summary.StackStatus, StackColor(summary.StackStatus)),
     date   |-> TimeText(IF "LastUpdatedTime" \in DOMAIN summary
                         THEN summary.LastUpdatedTime
                         ELSE summary.CreationTime)]

\* lines 105-121: the for loop over one page
RECURSIVE PageRecords(_)
PageRecords(summaries) ==
    IF summaries = <<>> THEN <<>>
    ELSE (IF Head(summaries).StackStatus # DELETE_COMPLETE
          THEN <<StackRecord(Head(summaries))>>
          ELSE <<>>) \o PageRecords(Tail(summaries))

\* display_table(stacks, 'Stacks'): a coloured status is not the text
\* 'CREATE_FAILED' and is left as it is
StacksTable(records) ==
    [kind |-> "table", title |-> "Stacks",
     headers |-> IF records = <<>> THEN <<>> ELSE <<"name", "status", "date">>,
     rows |-> [i \in 1..Len(records) |->
                 <<Cell(records[i].name), records[i].status, Cell(records[i].date)>>]]

InitList ==
    /\ InitCommand("list-stacks", {"", "dev"})
    /\ ToolsIdle

listframe == <<quietvars, spinner, exit_code, paramvars, pipevars, cachevars,
               watchvars>>

\* _main at lines 96-103: the session of the profile, stacks = [] and the
\* first list_stacks
StartList ==
    /\ pc = "start"
    /\ IF profile # ""
       THEN /\ error' = NoSrcProfile
            /\ pc' = "raised"
            /\ UNCHANGED <<calls, response, pages>>
       ELSE /\ calls' = Append(calls, "list_stacks")
            /\ \E answer \in ListStacksResponses(0) :
                 IF answer.err # None
                 THEN /\ error' = answer.err
                      /\ pc' = "raised"
                      /\ UNCHANGED <<response, pages>>
                 ELSE /\ error' = error
                      /\ pc' = "page"
                      /\ response' = answer
                      /\ pages' = Append(pages, answer)
    /\ UNCHANGED <<listframe, console, stacks>>

\* lines 104-128: one turn of the while loop
ListPage ==
    /\ pc = "page"
    /\ stacks' = stacks \o PageRecords(response.StackSummaries)
    /\ IF "NextToken" \in DOMAIN response
       THEN /\ calls' = Append(calls, "list_stacks")
            /\ \E answer \in ListStacksResponses(Len(pages)) :
                 IF answer.err # None
                 THEN /\ error' = answer.err
                      /\ pc' = "raised"
                      /\ UNCHANGED <<response, pages>>
                 ELSE /\ error' = error
                      /\ pc' = "page"
                      /\ response' = answer
                      /\ pages' = Append(pages, answer)
       ELSE /\ pc' = "display"
            /\ UNCHANGED <<calls, error, response, pages>>
    /\ UNCHANGED <<listframe, console>>

\* line 131: cftcli.common.display_table(stacks, 'Stacks')
DisplayStacks ==
    /\ pc = "display"
    /\ console' = Append(console, StacksTable(stacks))
    /\ pc' = "returned"
    /\ UNCHANGED <<listframe, calls, error, response, listvars>>

NextList ==
    \/ StartList
    \/ ListPage
    \/ DisplayStacks

SpecList == InitList /\ [][NextList]_vars
\*TOOLS


\* =============================================================== claims
\* What the claims call a Transitional status, a failure status and the
\* stack-does-not-exist failure, stated apart from the code's own tests.
HasInProgress(s)    == Contains(<<"I","N","_","P","R","O","G","R","E","S","S">>, s)
HasFailureMarker(s) ==
    \/ Contains(<<"R","O","L","L","B","A","C","K">>, s)
    \/ Contains(<<"F","A","I","L","E","D">>, s)
IsNotExistFailure(m) ==
    m # None /\ Contains(StackWithId \o stackname \o DoesNotExist, m)

LastFetched == fetched[Len(fetched)]
Lines       == {i \in 1..Len(console) : console[i].kind = "line"}
Polling     == pc \in {"outer", "inner", "sleep", "fetch"}
Finished    == pc = "returned" \/ (pc = "exited" /\ error = None)

\* C1: wait_for_stack finishes on the first fetched status that does not
\* contain 'IN_PROGRESS': every fetch before the last returned a status that
\* contains it, a delay or a further fetch is only ever pending after such a
\* status, and the status printed is the last one fetched.
C1_FinishesOnFirstTerminal ==
    /\ \A i \in 1..Len(fetched) :
         i < Len(fetched) => fetched[i].err = None /\ HasInProgress(fetched[i].value)
    /\ pc \in {"sleep", "fetch"} => HasInProgress(LastFetched.value)
    /\ pc = "report" => LastFetched.err = None /\ ~HasInProgress(LastFetched.value)
    /\ \A j \in Lines :
         /\ LastFetched.err = None
         /\ ~HasInProgress(LastFetched.value)
         /\ console[j].state = LastFetched.value

C1_Witness ==
    /\ pc = "returned"
    /\ Len(fetched) = 3
    /\ console[Len(console)].state = fetched[3].value
    /\ fetched[1].value # fetched[2].value

\* C2: n Transitional statuses followed by a Terminal one cost exactly n
\* delays of 3 and n+1 fetches, sleep and fetch alternating after the first
\* fetch ([A, A, B] gives B after exactly 2 delays).
C2_DelaysAndFetches ==
    /\ \A i \in 1..Len(delays) : delays[i] = 3
    /\ Len(delays) = (IF pc = "fetch" THEN Len(fetched) ELSE Len(fetched) - 1)
          \/ fetched = <<>>
    /\ fetched = <<>> => delays = <<>>
    /\ \A k \in 1..(Len(fetched) + Len(delays)) :
         events[k] = (IF k % 2 = 1 THEN "get_stack_state" ELSE "sleep")
    /\ (Finished /\ ~HasInProgress(state)) =>
         /\ Len(delays) = Len(fetched) - 1
         /\ \A i \in 1..(Len(fetched) - 1) : HasInProgress(fetched[i].value)

C2_Witness ==
    /\ pc = "returned"
    /\ Len(fetched) = 3
    /\ fetched[1].value = fetched[2].value
    /\ HasInProgress(fetched[1].value)
    /\ ~HasInProgress(fetched[3].value)
    /\ delays = <<3, 3>>

\* C3: a fetch that fails because the stack does not exist returns
\* 'DELETE_COMPLETE' instead of raising; polling stops at that fetch (no
\* further fetch or delay, so zero delays when it is the first fetch) and
\* the run ends with a green line and no error.
C3_NotExistIsDeleteComplete ==
    \A i \in 1..Len(fetched) :
        IsNotExistFailure(fetched[i].caught) =>
            /\ fetched[i].err = None
            /\ fetched[i].value = DELETE_COMPLETE
            /\ i = Len(fetched)
            /\ Len(delays) = i - 1
            /\ pc \notin {"sleep", "fetch", "raised"}
            /\ error = None
            /\ pc \in {"returned", "exited"} =>
                 /\ Len(console) = 1
                 /\ console[1].kind = "line"
                 /\ console[1].color = "green"
                 /\ console[1].state = DELETE_COMPLETE

C3_Witness ==
    /\ pc = "returned"
    /\ Len(fetched) = 1
    /\ IsNotExistFailure(fetched[1].caught)
    /\ delays = <<>>
    /\ console[1].color = "green"

\* C4: a fetch that fails for any other reason propagates to the caller:
\* it is the last fetch, no delay and no output follow it, and the
\* exception leaves wait_for_stack with the failure's message.
C4_OtherFailuresPropagate ==
    \A i \in 1..Len(fetched) :
        (fetched[i].caught # None /\ ~IsNotExistFailure(fetched[i].caught)) =>
            /\ fetched[i].err = fetched[i].caught
            /\ i = Len(fetched)
            /\ Len(delays) = i - 1
            /\ events[Len(events)] = "get_stack_state"
            /\ pc \in {"raised", "exited"}
            /\ error = fetched[i].caught
            /\ console = <<>>

C4_Witness ==
    /\ pc = "raised"
    /\ Len(fetched) = 2
    /\ fetched[2].caught = RateExceeded
    /\ fetched[2].calls = <<"describe_stacks", "describe_stack_resources">>

\* C5: a run that ends on a Terminal-Failure status exits non-zero, and a
\* run exits zero only when it ended on a Terminal-Success status.
C5_FailureExitsNonZero ==
    (pc = "exited" /\ exit_code = 0) =>
        /\ Lines # {}
        /\ \A j \in Lines : ~HasFailureMarker(console[j].state)

\* C6: a status that contains 'IN_PROGRESS' is never treated as terminal,
\* whatever else it contains: after fetching it the poller is still polling,
\* nothing has been printed and no failure listing has been requested.
C6_InProgressIsTransitional ==
    /\ \A j \in Lines : ~HasInProgress(console[j].state)
    /\ (fetched # <<>> /\ LastFetched.err = None /\ HasInProgress(LastFetched.value)) =>
         /\ Polling
         /\ console = <<>>
         /\ \A k \in 1..Len(events) : events[k] \in {"get_stack_state", "sleep"}

C6_Witness ==
    /\ pc = "sleep"
    /\ Len(fetched) = 2
    /\ state = UPDATE_ROLLBACK_IN_PROGRESS
    /\ HasFailureMarker(state)

\* C7: a status that does not contain 'IN_PROGRESS' is reported red exactly
\* when it contains 'ROLLBACK' or 'FAILED' in these letters and green
\* otherwise; a status is polled on, reported red or reported green, never
\* two of these.
C7_FailureIffMarker ==
    /\ \A j \in Lines :
         /\ console[j].color \in {"red", "green"}
         /\ console[j].color = "red" <=> HasFailureMarker(console[j].state)
         /\ ~HasInProgress(console[j].state)
    /\ pc \in {"sleep", "fetch"} => HasInProgress(state) /\ Lines = {}
    /\ pc = "report" => ~HasInProgress(state)
    /\ pc = "returned" => Cardinality(Lines) = 1 /\ console[Len(console)].state = state

C7_Witness ==
    /\ pc = "returned"
    /\ state = UPDATE_ROLLBACK_COMPLETE
    /\ console[Len(console)].color = "red"

\* C8: get_failed_resources returns the entries of the listing whose status
\* contains 'failed' in any letter case, in the listing's order, each as its
\* name, status and reason.
ListedFailed(record) == Contains(Lower(FAILED), Lower(record.ResourceStatus))

C8_FailedResourcesExact ==
    LET sel == SelectSeq(listing, ListedFailed)
    IN  failed_resources =
            [i \in 1..Len(sel) |->
                [name   |-> sel[i].LogicalResourceId,
                 status |-> sel[i].ResourceStatus,
                 reason |-> sel[i].ResourceStatusReason]]

C8_Witness ==
    /\ pc = "returned"
    /\ listing = <<Res(X, CREATE_FAILED, r1), Res(Y, CREATE_COMPLETE, <<>>)>>
    /\ failed_resources = <<[name |-> X, status |-> CREATE_FAILED, reason |-> r1]>>

\* C9: nothing is printed before the loop is left; a run that returns has
\* printed '<stackname> is <status>' last; on a failure status the listing
\* was requested, then the table printed, then the red line; on a success
\* status only the green line is printed and no listing is requested.
C9_OutputOrder ==
    /\ pc \in {"start", "wait", "outer", "inner", "sleep", "fetch", "report", "raised"}
         => console = <<>>
    /\ pc = "returned" =>
         LET last == console[Len(console)]
             n    == Len(events)
         IN  /\ last.kind = "line"
             /\ last.stackname = stackname
             /\ last.state = state
             /\ IF HasFailureMarker(state)
                THEN /\ Len(console) = 2
                     /\ console[1].kind = "table"
                     /\ Len(console[1].rows) = Len(failed_resources)
                     /\ last.color = "red"
                     /\ SubSeq(events, n - 2, n) =
                            <<"get_failed_resources", "display_table", "print">>
                     /\ calls[Len(calls)] = "describe_stack_resources"
                ELSE /\ Len(console) = 1
                     /\ last.color = "green"
                     /\ events[n] = "print"
                     /\ \A k \in 1..n :
                          events[k] \notin {"get_failed_resources", "display_table"}

C9_Witness ==
    /\ pc = "returned"
    /\ Len(fetched) = 2
    /\ state = UPDATE_ROLLBACK_COMPLETE
    /\ Len(console) = 2
    /\ Len(console[1].rows) = 2
    /\ console[1].rows[1][1].text = Bucket
    /\ console[2].color = "red"

\* C10: the decision taken on a fetched status (poll on, red, green) is the
\* one the StackStatus of describe_stacks alone determines, whatever
\* resources are in progress.
C10_DependsOnlyOnStackStatus ==
    (fetched # <<>> /\ LastFetched.err = None /\ LastFetched.caught = None) =>
        /\ pc \in {"sleep", "fetch"} => HasInProgress(stack_status)
        /\ pc \in {"report", "returned"} => ~HasInProgress(stack_status)
        /\ \A j \in Lines :
             console[j].color = "red" <=> HasFailureMarker(stack_status)


\* every status fetched so far is Transitional
AllTransitional ==
    /\ fetched # <<>>
    /\ \A i \in 1..Len(fetched) :
         fetched[i].err = None /\ HasInProgress(fetched[i].value)

\* C11: the polling loop has no retry limit and no timeout. As long as every
\* fetch has returned a Transitional status, the same one or changing ones,
\* wait_for_stack is still in its loops, has printed no status line and the
\* process has not ended; short of the model's MaxFetch a further step of the
\* loop is always possible, and delays and fetches alternate. The loops are
\* left only with a state that is not Transitional or by an exception.
C11_NoRetryLimit ==
    /\ [](AllTransitional =>
            /\ Polling
            /\ console = <<>>
            /\ exit_code = -1
            /\ Len(delays) \in {Len(fetched) - 1, Len(fetched)}
            /\ pc = "fetch" <=> Len(delays) = Len(fetched)
            /\ Len(fetched) < MaxFetch =>
                 ENABLED (OuterLoop \/ InnerLoop \/ Sleep \/ NextFetch))
    /\ [][(Polling /\ ~Polling') =>
            \/ pc' = "raised"
            \/ pc' = "report" /\ ~HasInProgress(state)]_vars

\* three fetches answered the same Transitional status, two delays between
\* them, and the loop is about to sleep again
C11_Witness ==
    /\ AllTransitional
    /\ Len(fetched) = 3
    /\ fetched[1].value = fetched[2].value
    /\ fetched[2].value = fetched[3].value
    /\ delays = <<TIME_DELAY, TIME_DELAY>>
    /\ pc = "sleep"


\* the last status fetch returned a status that is not Transitional (the
\* stack that does not exist is returned as DELETE_COMPLETE)
FetchedTerminal ==
    /\ fetched # <<>>
    /\ LastFetched.err = None
    /\ ~HasInProgress(LastFetched.value)

\* the listing of the failed resources raised
ListingRaised ==
    /\ events # <<>>
    /\ events[Len(events)] = "get_failed_resources"
    /\ error # None

\* C12: termination under a converging remote. Once a status fetch has
\* returned a status that is not Transitional, wait_for_stack eventually is
\* out of both loops and has printed the final status line, unless the fetch
\* of the failed resources raised.
C12_ConvergesAndPrints ==
    FetchedTerminal ~> (~Polling /\ (Lines # {} \/ ListingRaised))

\* the remote converged at the third fetch and the final line is printed
C12_Witness ==
    /\ Len(fetched) = 3
    /\ HasInProgress(fetched[1].value)
    /\ HasInProgress(fetched[2].value)
    /\ FetchedTerminal
    /\ ~Polling
    /\ Lines # {}
    /\ console[Len(console)].state = LastFetched.value


\* the remote operations a step issues, and how often wait_for_stack asked
\* for the failed resources
ReadOnlyCalls   == {<<>>, <<"describe_stacks">>, <<"describe_stack_resources">>,
                    <<"describe_stacks", "describe_stack_resources">>}
MutatingCalls   == {"create_stack", "update_stack", "delete_stack"}
FailureListings == {i \in 1..Len(events) : events[i] = "get_failed_resources"}

\* C13: wait_for_stack and its helpers neither mutate remote state nor
\* retry. From the entry of wait_for_stack on, a step issues only read-only
\* queries, describe_stacks and describe_stack_resources, each at most once,
\* and none after an exception; the listing of the failed resources is
\* requested at most once, so every create, update or delete operation among
\* the calls was issued before wait_for_stack was entered.
C13_ReadOnlyNoRetry ==
    /\ [](Cardinality(FailureListings) <= 1)
    /\ [](fetched # <<>> =>
            Cardinality({k \in 1..Len(calls) : calls[k] \in MutatingCalls})
                = IF cmd = "attach" THEN 0 ELSE 1)
    /\ [][pc # "start" =>
            /\ Len(calls') >= Len(calls)
            /\ SubSeq(calls', 1, Len(calls)) = calls
            /\ SubSeq(calls', Len(calls) + 1, Len(calls')) \in ReadOnlyCalls
            /\ pc \in {"raised", "returned", "exited"} => calls' = calls]_vars

\* deploy-stack updated the stack, polled twice and listed the failed
\* resources once
C13_Witness ==
    /\ cmd = "deploy"
    /\ pc = "returned"
    /\ Len(fetched) = 2
    /\ Cardinality(FailureListings) = 1
    /\ calls = <<"describe_stacks", "describe_stacks", "update_stack",
                 "describe_stacks", "describe_stack_resources",
                 "describe_stacks", "describe_stack_resources",
                 "describe_stack_resources">>


\* C14: a module's client handle is reassigned at most once in a run and only
\* before the first status fetch: a step that changes a handle is the step
\* that leaves the start of the command, the start is never returned to, and
\* from the entry of wait_for_stack on no handle changes, so the poller uses
\* one handle throughout.
C14_HandleSetOnceBeforePolling ==
    [][/\ CLOUDFORMATION' # CLOUDFORMATION =>
             /\ pc = "start"
             /\ pc' # "start"
             /\ fetched = <<>>
             /\ Cardinality({m \in Modules :
                               CLOUDFORMATION'[m] # CLOUDFORMATION[m]}) = 1
       /\ pc # "start" => pc' # "start"
       /\ fetched # <<>> =>
             CLOUDFORMATION'["deploy"] = CLOUDFORMATION["deploy"]]_vars

\* deploy-stack with profile dev made its handle from the session of dev and
\* is polling for the second time
C14_Witness ==
    /\ cmd = "deploy"
    /\ CLOUDFORMATION["deploy"] = SessionClient("dev")
    /\ CLOUDFORMATION["destroy"] = ImportClient
    /\ Len(fetched) = 2
    /\ pc = "sleep"


\* the decision and the failure list that a terminal status string and a
\* listing determine
DecisionOf(status) == IF HasFailureMarker(status) THEN "red" ELSE "green"
FailuresOf(records) ==
    LET sel == SelectSeq(records, ListedFailed)
    IN  [i \in 1..Len(sel) |->
            [name   |-> sel[i].LogicalResourceId,
             status |-> sel[i].ResourceStatus,
             reason |-> sel[i].ResourceStatusReason]]

\* C15: the reporter is deterministic. What wait_for_stack has reported when
\* it returns, the decision and the ordered list of failures, is a function
\* of the terminal status string and of the listing it was answered, and of
\* nothing else: any two runs that end with the same status string and the
\* same listing report the same, whatever the command, the profile and the
\* earlier polls were. Without a failure no listing is requested and the
\* list is empty.
C15_ReporterDeterministic ==
    pc = "returned" =>
        LET decision == console[Len(console)].color
        IN  /\ decision = DecisionOf(state)
            /\ decision = "red" =>
                 /\ failed_resources = FailuresOf(listing)
                 /\ Len(console) = 2
                 /\ Len(console[1].rows) = Len(FailuresOf(listing))
            /\ decision = "green" =>
                 /\ failed_resources = <<>>
                 /\ listing = <<>>
                 /\ Len(console) = 1

\* an earlier poll read a rolling-back status, the last one a success
\* status: the decision is green
C15_Witness ==
    /\ pc = "returned"
    /\ Len(fetched) = 3
    /\ HasFailureMarker(fetched[1].value)
    /\ HasFailureMarker(fetched[2].value)
    /\ state = CREATE_COMPLETE
    /\ console[Len(console)].color = "green"


\* the last apply_config call of the run
LastApplied == applied[Len(applied)]

\* C16: after a call of apply_config that completes, whatever the two files
\* held before, the section of the profile in 'config' holds exactly the key
\* region, with the region given, and the section of the profile in
\* 'credentials' holds exactly the keys aws_access_key_id,
\* aws_secret_access_key and aws_session_token, with the token's values.
C16_ProfileSectionsExact ==
    (applied # <<>> /\ LastApplied.err = None) =>
        LET p == LastApplied.profile
            t == LastApplied.token
        IN  /\ home.config.exists
            /\ home.credentials.exists
            /\ p \in DOMAIN home.config.sections
            /\ p \in DOMAIN home.credentials.sections
            /\ DOMAIN home.config.sections[p] = {<<"r","e","g","i","o","n">>}
            /\ home.config.sections[p][region] = LastApplied.region
            /\ DOMAIN home.credentials.sections[p] =
                 {aws_access_key_id, aws_secret_access_key, aws_session_token}
            /\ home.credentials.sections[p][aws_access_key_id] = t.AccessKeyId
            /\ home.credentials.sections[p][aws_secret_access_key] = t.SecretAccessKey
            /\ home.credentials.sections[p][aws_session_token] = t.SessionToken

\* a second session of profile dev, with another token and another region,
\* written over the first one, beside the section of another profile
C16_Witness ==
    /\ Len(applied) = 2
    /\ applied[1].profile = "dev" /\ applied[2].profile = "dev"
    /\ applied[1].err = None /\ applied[2].err = None
    /\ applied[1].token # applied[2].token
    /\ applied[1].region # applied[2].region
    /\ "prod" \in DOMAIN home.credentials.sections
    /\ C16_ProfileSectionsExact


\* 'in_progress' in any letter case, and the names of the sub-components of
\* a listing whose status holds it
HasInProgressAnyCase(s) ==
    Contains(<<"i","n","_","p","r","o","g","r","e","s","s">>, Lower(s))
BusyNames(records) ==
    LET sel == SelectSeq(records,
                         LAMBDA record : HasInProgressAnyCase(record.ResourceStatus))
    IN  [i \in 1..Len(sel) |-> sel[i].LogicalResourceId]

\* the state get_stack_state returns for a stack status and a listing
StateFor(status, records) ==
    IF BusyNames(records) = <<>> THEN status
    ELSE status \o <<" ","-"," ">> \o Join(<<","," ">>, Sorted(BusyNames(records)))

\* the rules of C17 that hold of the code: the failure markers are matched in
\* upper case only, the failed sub-components in any letter case
C17_MarkerAndFilterRules ==
    /\ \A j \in Lines :
         console[j].color = "red" <=> HasFailureMarker(console[j].state)
    /\ failed_resources = FailuresOf(listing)

\* C17 as claimed: the failure-marker check is case-sensitive and the
\* 'FAILED' filter on sub-components is case-insensitive, and the IN_PROGRESS
\* check that decides whether wait_for_stack keeps polling is
\* case-insensitive: a state that holds 'in_progress' in any letter case is
\* polled further, it is not reported.
C17_LoopTestAnyCase ==
    /\ C17_MarkerAndFilterRules
    /\ (/\ fetched # <<>>
        /\ LastFetched.err = None
        /\ HasInProgressAnyCase(LastFetched.value)) =>
            /\ pc # "report"
            /\ Lines = {}

\* C17, amended: the failure-marker check and the IN_PROGRESS check that
\* decides whether wait_for_stack keeps polling are case-sensitive (a status
\* such as 'create_in_progress' ends the polling and is printed green), while
\* the in-progress filter and the 'FAILED' filter on sub-components are
\* case-insensitive (a sub-component with status 'create_in_progress' is
\* named in the state).
C17_CaseRules ==
    /\ C17_MarkerAndFilterRules
    /\ pc \in {"sleep", "fetch"} => HasInProgress(state)
    /\ pc \in {"report", "returned"} => ~HasInProgress(state)
    /\ (/\ fetched # <<>>
        /\ LastFetched.err = None
        /\ LastFetched.caught = None) =>
            \E records \in Listings :
                LastFetched.value = StateFor(stack_status, records)

\* the stack status create_in_progress, with sub-components X (status
\* create_in_progress) and Y (status CREATE_IN_PROGRESS) both named in the
\* state, ended the polling at the first fetch and was printed green
C17_Witness ==
    /\ pc = "returned"
    /\ Len(fetched) = 1
    /\ stack_status = create_in_progress
    /\ state = create_in_progress \o <<" ","-"," ","X",","," ","Y">>
    /\ console[Len(console)].color = "green"


\* the handle a command issues its stack operation through (the global of
\* its own module), and the handle get_stack_state, get_inprogress_resources
\* and get_failed_resources read (the global of deploy.py)
CommandClient == CLOUDFORMATION[cmd]
PollerClient  == CLOUDFORMATION["deploy"]

\* C18: the poller uses the client handle the command authenticated. In
\* delete-stack and in attach-stack, once wait_for_stack has fetched a status, the
\* handle the command made from the session of the requested profile, and
\* issued delete_stack through, is the handle every status fetch and
\* sub-component listing goes through.
C18_PollsThroughCommandHandle ==
    (cmd \in {"destroy", "attach"} /\ fetched # <<>>) =>
        /\ PollerClient = CommandClient
        /\ profile # "" => PollerClient = SessionClient(profile)


\* C19: attach-stack with a requested profile sets up the session of that
\* profile, makes its client handle from it and reaches wait_for_stack: it
\* does not fail before the first status fetch.
C19_AttachWithProfilePolls ==
    (cmd = "attach" /\ profile # "" /\ pc # "start") =>
        /\ CLOUDFORMATION["attach"] = SessionClient(profile)
        /\ pc \in {"raised", "exited"} => fetched # <<>>


\* C20: stack_exist returns True when describe_stacks answers the stack and
\* False if and only if the stack does not exist: it does not return False
\* when describe_stacks fails for another reason.
C20_FalseOnlyWhenMissing ==
    existed.called =>
        /\ existed.answer = None => existed.result
        /\ ~existed.result <=> IsNotExistFailure(existed.answer)


\* the positions of the create, update and delete operations among the calls
MutatingAt == {k \in 1..Len(calls) : calls[k] \in MutatingCalls}

\* C21: every run of deploy._main that reaches polling issued exactly one
\* mutating stack operation, before the first status fetch: update_stack when
\* stack_exist returned True, create_stack with OnFailure and
\* EnableTerminationProtection when it returned False, never both; and when
\* that operation raises, wait_for_stack is not entered.
C21_OneOperationBeforePolling ==
    cmd = "deploy" =>
        /\ (pc = "wait" \/ fetched # <<>>) =>
             /\ existed.called
             /\ Cardinality(MutatingAt) = 1
             /\ \A k \in MutatingAt :
                  /\ calls[k] = IF existed.result THEN "update_stack"
                                ELSE "create_stack"
                  /\ \A j \in 1..(k - 1) : calls[j] = "describe_stacks"
                  /\ k = IF existed.result THEN 3 ELSE 2
             /\ {"OnFailure", "EnableTerminationProtection"} \subseteq stack_kwargs
                  <=> ~existed.result
        /\ pc = "wait" => error = None
        /\ (fetched = <<>> /\ error # None) => pc \in {"raised", "exited"}
        /\ Cardinality(MutatingAt) <= 1

\* the stack existed: it was updated, not created, and then polled
C21_Witness ==
    /\ cmd = "deploy"
    /\ Len(fetched) = 1
    /\ existed.result
    /\ SubSeq(calls, 1, 3) = <<"describe_stacks", "describe_stacks", "update_stack">>
    /\ stack_kwargs = {"StackName", "TemplateBody", "Parameters", "Capabilities"}


\* the keys of a list of parameters, and the parameters of the answered
\* stack whose key was not supplied
KeysOf(list) == {list[i].ParameterKey : i \in 1..Len(list)}
Distinct(list) ==
    \A i, j \in 1..Len(list) :
        list[i].ParameterKey = list[j].ParameterKey => i = j
Missing ==
    SelectSeq(StackParametersOf(response),
              LAMBDA record : record.ParameterKey \notin KeysOf(supplied))

\* C22: fill_in_current_parameters returns the supplied parameters unchanged
\* and in order, followed by one entry {ParameterKey, UsePreviousValue: True}
\* for each parameter of the current stack whose key is not among the
\* supplied keys, in the stack's order, and nothing else; when the supplied
\* keys are distinct, the keys of the result are distinct and are the union
\* of the supplied keys and the stack's parameter keys.
C22_KeepsSuppliedAddsMissing ==
    pc = "filled" =>
        /\ Len(parameters) = Len(supplied) + Len(Missing)
        /\ SubSeq(parameters, 1, Len(supplied)) = supplied
        /\ \A i \in 1..Len(Missing) :
             parameters[Len(supplied) + i] =
                 [ParameterKey |-> Missing[i].ParameterKey, UsePreviousValue |-> TRUE]
        /\ Distinct(supplied) =>
             /\ Distinct(parameters)
             /\ KeysOf(parameters) =
                  KeysOf(supplied) \cup KeysOf(StackParametersOf(response))

\* Size was supplied, the stack has Vpc, Size and Env: Size keeps its value
\* and Vpc and Env are added with UsePreviousValue
C22_Witness ==
    /\ pc = "filled"
    /\ supplied = <<[ParameterKey |-> "Size", ParameterValue |-> "2"]>>
    /\ parameters = <<[ParameterKey |-> "Size", ParameterValue |-> "2"],
                      [ParameterKey |-> "Vpc", UsePreviousValue |-> TRUE],
                      [ParameterKey |-> "Env", UsePreviousValue |-> TRUE]>>


StatusesOf(contexts) ==
    {contexts[i].latestExecution.status :
        i \in {j \in 1..Len(contexts) : "latestExecution" \in DOMAIN contexts[j]}}

\* C23: _get_pipeline_state returns 'Failed' if some stage's latest execution
\* status is Failed, Cancelled, Stopped or Stopping, 'InProgress' if some
\* stage is InProgress and none is failed, and 'Succeeded' otherwise; the
\* result is always a key of STATE_COLOR, so the colour lookup never misses.
C23_FailedBeforeInProgress ==
    pc \in {"stated", "colored"} =>
        /\ pipeline_state \in DOMAIN STATE_COLOR
        /\ pipeline_state =
             IF StatusesOf(stages) \cap FailedStatuses # {} THEN "Failed"
             ELSE IF "InProgress" \in StatusesOf(stages) THEN "InProgress"
             ELSE "Succeeded"


\* the sections of a file other than the one of profile p
OtherSections(file, p) == DOMAIN file.sections \ {p}

\* C24: a call apply_config for profile P leaves every other profile
\* untouched: whatever the 'config' and 'credentials' files held before, each
\* section whose name differs from P has the same keys and values after the
\* call as before it, in both files; only the section P is replaced.
C24_OtherProfilesUntouched ==
    [][LET p == applied'[Len(applied')].profile
       IN  \A name \in {"config", "credentials"} :
             /\ OtherSections(home'[name], p) = OtherSections(home[name], p)
             /\ \A s \in OtherSections(home[name], p) :
                  home'[name].sections[s] = home[name].sections[s]]_vars


\* C25: the cache remembers the last-used flag values: after any sequence of
\* invocations, the value stored under each key written by save_cache
\* (profile, region, codebuild, buildspec, bucket, ...) is the value that
\* flag had in the most recent invocation.
C25_CacheHoldsLastUsed ==
    pc = "saved" =>
        \A k \in CacheKeySet : k \in DOMAIN CACHE /\ CACHE[k] = args[k]


\* the last batch_get_builds result reports the build as finished
BuildFinished ==
    /\ build # NoBuild
    /\ (build.buildComplete \/ build.buildStatus # "IN_PROGRESS")

\* the 'build complete with status' line has been printed
PrintedBuildLine == \E i \in 1..Len(console) : console[i].kind = "build complete"

\* C26: if from some point on every batch_get_builds result reports the build
\* as finished (buildComplete true, or buildStatus no longer IN_PROGRESS) and
\* no call fails, watch_build eventually leaves its loops, prints the 'build
\* complete with status' line and returns, whatever currentPhase values the
\* finished build reports.
C26_WatcherTerminates ==
    (<>[]BuildFinished /\ [](error = None)) =>
        <>(pc = "returned" /\ PrintedBuildLine)


\* C27: the outcome watch_build prints agrees with the build it returns: the
\* phase shown in the 'build complete with status' line is the currentPhase
\* of the returned build, and the line is green exactly when that build's
\* currentPhase is 'COMPLETED', red otherwise.
C27_PrintedPhaseIsReturnedPhase ==
    pc = "returned" =>
        /\ PrintedBuildLine
        /\ console[1].phase = build.currentPhase
        /\ console[1].color =
             IF build.currentPhase = "COMPLETED" THEN "green" ELSE "red"


\* the first batch_get_builds result had buildComplete true: the body of the
\* outer loop never ran
CompleteAtFirstQuery ==
    build # NoBuild /\ build.buildComplete /\ build_status = Unbound

\* C28: when the first batch_get_builds result has buildComplete true,
\* watch_build performs zero delays, prints the 'build complete with status'
\* line for that build and returns it, without failing.
C28_CompleteAtFirstQueryReported ==
    CompleteAtFirstQuery =>
        /\ ~slept
        /\ error # UnboundPhase
        /\ pc = "returned" =>
             PrintedBuildLine /\ console[1].phase = build.currentPhase


\* the list a cached 'stacks' text was written from
CachedStacks == CHOOSE l \in NameLists : dumps(l) = CACHE["stacks"].value

\* what stack-detail is to display: the positional arguments, else the cached
\* 'stacks', else the cached 'stackname', else nothing
HasCachedStacks    == "stacks" \in DOMAIN CACHE
HasCachedStackName == "stackname" \in DOMAIN CACHE /\ CACHE["stackname"].value # <<>>
NothingToDisplay ==
    args.stacks = <<>> /\ ~HasCachedStacks /\ ~HasCachedStackName
ExpectedStacks ==
    IF args.stacks # <<>> THEN args.stacks
    ELSE IF HasCachedStacks THEN CachedStacks
    ELSE <<CACHE["stackname"].value>>

\* C29: stack-detail displays the positional arguments if any; otherwise the
\* cached 'stacks' list if present; otherwise the single cached 'stackname'
\* if present; otherwise it prints 'A StackName is required' and exits with
\* status 1 without any remote call. In each of the first three cases every
\* chosen stack is displayed, in order (only a failing request stops it).
C29_ChoiceOrder ==
    pc \in {"display", "displayed", "raised", "exited"} =>
        IF NothingToDisplay
        THEN /\ pc = "exited"
             /\ exit_code = 1
             /\ calls = <<>>
             /\ console = <<[kind |-> "message", stackname |-> StackNameRequired]>>
        ELSE /\ pc # "exited"
             /\ pc = "raised" => calls # <<>>
             /\ pc \in {"display", "displayed"} => stacks = ExpectedStacks
             /\ Len(Displayed(console)) <= Len(ExpectedStacks)
             /\ Displayed(console) =
                  SubSeq(ExpectedStacks, 1, Len(Displayed(console)))
             /\ pc = "displayed" => Displayed(console) = ExpectedStacks


\* the summaries of all the pages received, in the order received
RECURSIVE AllSummaries(_)
AllSummaries(received) ==
    IF received = <<>> THEN <<>>
    ELSE Head(received).StackSummaries \o AllSummaries(Tail(received))

Shown == SelectSeq(AllSummaries(pages),
                   LAMBDA s : s.StackStatus # <<"D","E","L","E","T","E","_",
                                                "C","O","M","P","L","E","T","E">>)

ColourOf(status) ==
    IF Contains(<<"F","A","I","L","E","D">>, status) THEN "red"
    ELSE IF Contains(<<"R","O","L","L","B","A","C","K">>, status) THEN "yellow"
    ELSE IF Contains(<<"I","N","_","P","R","O","G","R","E","S","S">>, status)
    THEN "blue"
    ELSE "green"

\* C30: list-stacks follows pagination to the end: it requests the next page
\* exactly while the previous response carries a NextToken and stops at the
\* first response without one, and the rows passed to display_table are
\* exactly the stack summaries of all pages whose status is not
\* 'DELETE_COMPLETE', each once and in the order received, coloured red if
\* the status contains 'FAILED', else yellow if it contains 'ROLLBACK', else
\* blue if it contains 'IN_PROGRESS', else green.
C30_PaginationAndRows ==
    cmd = "list-stacks" =>
        /\ \A i \in 1..(Len(pages) - 1) : "NextToken" \in DOMAIN pages[i]
        /\ Len(pages) <= Len(calls) /\ Len(calls) <= Len(pages) + 1
        /\ Len(calls) = Len(pages) + 1 => pc = "raised"
        /\ pc \in {"display", "returned"} =>
             /\ pages # <<>>
             /\ "NextToken" \notin DOMAIN pages[Len(pages)]
             /\ Len(calls) = Len(pages)
             /\ Len(stacks) = Len(Shown)
             /\ \A i \in 1..Len(Shown) :
                  /\ stacks[i].name = Shown[i].StackName
                  /\ stacks[i].status.text = Shown[i].StackStatus
                  /\ stacks[i].status.color = ColourOf(Shown[i].StackStatus)
        /\ pc = "returned" =>
             /\ Len(console) = 1
             /\ console[1].title = "Stacks"
             /\ Len(console[1].rows) = Len(Shown)
             /\ \A i \in 1..Len(Shown) :
                  /\ console[1].rows[i][1].text = Shown[i].StackName
                  /\ console[1].rows[i][2] =
                       [text  |-> Shown[i].StackStatus,
                        color |-> ColourOf(Shown[i].StackStatus)]

\* three pages, a DELETE_COMPLETE summary left out, UPDATE_ROLLBACK_FAILED in
\* red and UPDATE_ROLLBACK_IN_PROGRESS in yellow
C30_Witness ==
    /\ cmd = "list-stacks"
    /\ pc = "returned"
    /\ Len(pages) = 3
    /\ Len(AllSummaries(pages)) = 7
    /\ Len(console[1].rows) = 6
    /\ \E i \in 1..6 :
         console[1].rows[i][2] =
             [text |-> UPDATE_ROLLBACK_FAILED, color |-> "red"]
    /\ \E i \in 1..6 :
         console[1].rows[i][2] =
             [text |-> UPDATE_ROLLBACK_IN_PROGRESS, color |-> "yellow"]

=============================================================================
